---- MODULE Spec2Model ----
(***************************************************************************)
(* First-to-Ahead-by-K voting: the Decision and Project entities           *)
(* (internal/models/project.go), the voting engine                         *)
(* (internal/project/voting.go), the project service                       *)
(* (internal/project/service.go), the progression helper                   *)
(* (internal/project/progression.go) and the JSON store                    *)
(* (internal/storage/json.go).                                             *)
(*                                                                         *)
(* Three specifications share the variables:                               *)
(*   SpecDecision  the Decision methods applied to bounded Decisions;      *)
(*   Spec          one caller issuing Service calls one after the other;   *)
(*   SpecConc      several callers whose Service calls interleave at the   *)
(*                 lock, load, store and unlock steps.                     *)
(* Name and Description strings carry no behaviour and are left out.       *)
(***************************************************************************)
EXTENDS Integers, Sequences, FiniteSets, TLC

(***************************************************************************)
(* Bounds                                                                  *)
(***************************************************************************)
\* largest vote count of one option in the Decisions SpecDecision starts from
MaxCount == 2
\* most option labels in an option list of SpecDecision
MaxOptions == 3
\* largest k handed to CheckWinner in SpecDecision
MaxK == 3
\* most Decisions one project holds in Spec
MaxDecisions == 2
\* most votes the Decisions of one project receive in Spec
MaxVotes == 4
\* last instant of the clock
MaxTime == 2
\* most votes the Decisions of one project receive in SpecConc
MaxConcVotes == 3
\* Decisions started in a project handed to the Scorer
MaxRounds == 2
\* RecordProjectScore calls on one Tracker
MaxRecords == 3
\* a float64 score x in [0, 1] is kept as the integer part of ScoreScale * x
ScoreScale == 100

(***************************************************************************)
(* Value sets                                                              *)
(***************************************************************************)
\* option labels callers pass; "" is Go's zero string, "Z" is never an option
Labels == {"", "A", "B", "C"}
VoteLabels == Labels \cup {"Z"}

\* a nil pointer and a pointer to x
Nil == <<>>
Some(x) == <<x>>

DecisionStateVoting == "voting"
DecisionStateCompleted == "completed"
DecisionStateCancelled == "cancelled"
DecisionStates == {DecisionStateVoting, DecisionStateCompleted, DecisionStateCancelled}

ProjectStateActive == "active"
ProjectStatePaused == "paused"
ProjectStateCompleted == "completed"
ProjectStateCancelled == "cancelled"
ProjectStates == {ProjectStateActive, ProjectStatePaused, ProjectStateCompleted,
                  ProjectStateCancelled}

\* error values of the service; ErrNone is a nil error
ErrNone == "ok"
ErrProjectNotFound == "failed to get project"
ErrProjectNotActive == "project is not active"
ErrDecisionNotFound == "decision not found"
ErrVotingClosed == "voting is closed"
ErrInvalidVote == "invalid vote"
ErrActiveDecision == "project already has an active decision"
ErrAlreadyComplete == "project is already complete"
ErrStillActive == "current decision is still active"
ErrSave == "failed to save project"

VARIABLES
    store,      \* JSON store: project id -> persisted project, or Nil
    now,        \* the clock time.Now() reads
    ret,        \* what the last Service call was and what it returned
    dec,        \* SpecDecision: the Decision the methods are applied to
    res,        \* SpecDecision: the last method call and its result
    mu,         \* SpecConc: Service.mu, writer and readers
    pc,         \* SpecConc: position of each caller inside its call
    call,       \* SpecConc: the call each caller is executing
    local,      \* SpecConc: the project each caller loaded
    status,     \* SpecConc: the ProjectStatus each reading caller holds
    castOK,     \* SpecConc: CastVote calls that returned nil, per Decision
    given,      \* SpecScore: the project handed to the Scorer
    score,      \* SpecScore: the last Scorer call and what it returned
    tracker,    \* SpecTracker: the Tracker's gameScores and globalStats
    top         \* SpecTracker: the last Tracker call and the ranking it returned

svcVars == <<store, now, ret>>
decVars == <<dec, res>>
concVars == <<mu, pc, call, local, status, castOK>>
metVars == <<given, score, tracker, top>>
vars == <<svcVars, decVars, concVars, metVars>>

(***************************************************************************)
(* Helpers                                                                 *)
(***************************************************************************)
RECURSIVE SumOver(_, _)
SumOver(f, S) ==
    IF S = {} THEN 0
    ELSE LET x == CHOOSE y \in S : TRUE IN f[x] + SumOver(f, S \ {x})

Range(s) == {s[i] : i \in DOMAIN s}

\* the orders in which a range over a Go map can visit its keys
Orders(S) ==
    {s \in [1..Cardinality(S) -> S] : \A i, j \in 1..Cardinality(S) : i # j => s[i] # s[j]}

(***************************************************************************)
(* models.Decision                                                         *)
(***************************************************************************)
NewDecisionNoVotes(id, projectID, turnNumber, options, t) ==
    [ID |-> id,
     ProjectID |-> projectID,
     TurnNumber |-> turnNumber,
     Options |-> options,
     State |-> DecisionStateVoting,
     Winner |-> Nil,
     Votes |-> <<>>,
     CreatedAt |-> t,
     CompletedAt |-> Nil,
     VotingStarted |-> t]

NewDecision(id, projectID, turnNumber, options, t) ==
    [ID |-> id,
     ProjectID |-> projectID,
     TurnNumber |-> turnNumber,
     Options |-> options,
     State |-> DecisionStateVoting,
     Winner |-> Nil,
     Votes |-> [o \in Range(options) |-> 0],
     CreatedAt |-> t,
     CompletedAt |-> Nil,
     VotingStarted |-> t]

\* first loop of CheckWinner: the running maximum over the visiting order
RECURSIVE FindMax(_, _, _, _)
FindMax(votes, order, maxOption, maxVotes) ==
    IF order = <<>> THEN [option |-> maxOption, votes |-> maxVotes]
    ELSE LET option == Head(order) IN
         IF votes[option] > maxVotes
         THEN FindMax(votes, Tail(order), option, votes[option])
         ELSE FindMax(votes, Tail(order), maxOption, maxVotes)

\* CheckWinner with the map visited in the given order
CheckWinnerLeadOnly(d, k, order) ==
    IF DOMAIN d.Votes = {} THEN Nil
    ELSE LET m == FindMax(d.Votes, order, "", 0) IN
         IF m.votes < k THEN Nil ELSE Some(m.option)

CheckWinner(d, k, order) ==
    IF DOMAIN d.Votes = {} THEN Nil
    ELSE LET m == FindMax(d.Votes, order, "", 0) IN
         IF \E option \in DOMAIN d.Votes :
                option # m.option /\ m.votes - d.Votes[option] < k
         THEN Nil
         ELSE Some(m.option)

AddVoteNoStateCheck(d, option) ==
    IF option \notin DOMAIN d.Votes
    THEN [ok |-> FALSE, d |-> d]
    ELSE [ok |-> TRUE, d |-> [d EXCEPT !.Votes[option] = @ + 1]]

AddVoteNoOptionCheck(d, option) ==
    IF d.State # DecisionStateVoting
    THEN [ok |-> FALSE, d |-> d]
    ELSE IF option \in DOMAIN d.Votes
         THEN [ok |-> TRUE, d |-> [d EXCEPT !.Votes[option] = @ + 1]]
         ELSE [ok |-> TRUE, d |-> [d EXCEPT !.Votes = (option :> 1) @@ @]]

AddVote(d, option) ==
    IF d.State # DecisionStateVoting
    THEN [ok |-> FALSE, d |-> d]
    ELSE IF option \notin DOMAIN d.Votes
         THEN [ok |-> FALSE, d |-> d]
         ELSE [ok |-> TRUE, d |-> [d EXCEPT !.Votes[option] = @ + 1]]

(***************************************************************************)
(* models.Project                                                          *)
(***************************************************************************)
NewProject(id, k, maxTurns, t) ==
    [ID |-> id,
     State |-> ProjectStateActive,
     K |-> k,
     MaxTurns |-> maxTurns,
     CurrentTurn |-> 0,
     CreatedAt |-> t,
     UpdatedAt |-> t,
     CompletedAt |-> Nil,
     Score |-> 0,
     Metrics |-> [TotalDecisions |-> 0, AverageConsensusTime |-> 0, TotalVotes |-> 0],
     Decisions |-> <<>>]

IsCompleteOnlyCompleted(p) == p.State = ProjectStateCompleted

IsComplete(p) == p.State = ProjectStateCompleted \/ p.State = ProjectStateCancelled

CanAcceptVotes(p) == p.State = ProjectStateActive

\* index of the last Decision whatever its state, 0 when there is none
GetCurrentDecisionLast(p) == Len(p.Decisions)

\* index of the current Decision in p.Decisions, 0 for a nil pointer
GetCurrentDecision(p) ==
    LET voting == {i \in 1..Len(p.Decisions) : p.Decisions[i].State = DecisionStateVoting}
    IN IF voting = {} THEN 0 ELSE CHOOSE i \in voting : \A j \in voting : j <= i

(***************************************************************************)
(* storage.JSONProjectStore: one file per project id.  A file holds the    *)
(* JSON of a project; encoding and decoding keep every modelled field.     *)
(* os.WriteFile opens the file with O_TRUNC and then writes: a save that   *)
(* fails in the open leaves the file as it was, a save that fails in the   *)
(* write leaves a file cut short, which no longer decodes.                 *)
(***************************************************************************)
NoProject == NewProject("", 0, 0, 0)
\* file: the file holds the JSON of project; torn: it holds a cut-short JSON
NoFile == [file |-> FALSE, torn |-> FALSE, project |-> NoProject]
TornFile == [file |-> FALSE, torn |-> TRUE, project |-> NoProject]
SaveOutcomes == {"ok", "fail", "torn"}

SaveProject(st, project, outcome) ==
    IF outcome = "ok"
    THEN [err |-> ErrNone,
          store |-> [st EXCEPT ![project.ID] =
                                   [file |-> TRUE, torn |-> FALSE, project |-> project]]]
    ELSE IF outcome = "torn"
    THEN [err |-> ErrSave, store |-> [st EXCEPT ![project.ID] = TornFile]]
    ELSE [err |-> ErrSave, store |-> st]

\* a missing file and a file that does not decode both return an error
GetProject(st, id) ==
    IF st[id].file
    THEN [err |-> ErrNone, project |-> st[id].project]
    ELSE [err |-> ErrProjectNotFound, project |-> NoProject]

(***************************************************************************)
(* project.VotingService and project.Service: what each call does to the   *)
(* project it loaded, and the error it returns                             *)
(***************************************************************************)
getTotalVotesWinnerOnly(decision) ==
    IF decision.Winner = Nil THEN SumOver(decision.Votes, DOMAIN decision.Votes)
    ELSE decision.Votes[decision.Winner[1]]

getTotalVotes(decision) == SumOver(decision.Votes, DOMAIN decision.Votes)

VotingCastVote(decision, option) ==
    IF decision.State # DecisionStateVoting
    THEN [err |-> ErrVotingClosed, d |-> decision]
    ELSE LET r == AddVote(decision, option) IN
         IF ~r.ok THEN [err |-> ErrInvalidVote, d |-> decision]
         ELSE [err |-> ErrNone, d |-> r.d]

\* sum over the Decisions with a CompletedAt of CompletedAt - VotingStarted
RECURSIVE totalTime(_, _)
totalTime(decisions, i) ==
    IF i = 0 THEN 0
    ELSE totalTime(decisions, i - 1)
         + (IF decisions[i].CompletedAt # Nil
            THEN decisions[i].CompletedAt[1] - decisions[i].VotingStarted
            ELSE 0)

\* the winner branch of CastVote
CompleteDecisionNoMetrics(project, i, winner, t) ==
    [project EXCEPT !.Decisions[i].State = DecisionStateCompleted,
                    !.Decisions[i].Winner = winner,
                    !.Decisions[i].CompletedAt = Some(t)]

CompleteDecisionNoCompletedAt(project, i, winner, t) ==
    LET p1 == [project EXCEPT !.Decisions[i].State = DecisionStateCompleted,
                              !.Decisions[i].Winner = winner]
        p2 == [p1 EXCEPT !.Metrics.TotalDecisions = @ + 1,
                         !.Metrics.TotalVotes = @ + getTotalVotes(p1.Decisions[i])]
    IN IF p2.Metrics.TotalDecisions > 0
       THEN [p2 EXCEPT !.Metrics.AverageConsensusTime =
                           totalTime(p2.Decisions, Len(p2.Decisions))
                               \div p2.Metrics.TotalDecisions]
       ELSE p2

CompleteDecision(project, i, winner, t) ==
    LET p1 == [project EXCEPT !.Decisions[i].State = DecisionStateCompleted,
                              !.Decisions[i].Winner = winner,
                              !.Decisions[i].CompletedAt = Some(t)]
        p2 == [p1 EXCEPT !.Metrics.TotalDecisions = @ + 1,
                         !.Metrics.TotalVotes = @ + getTotalVotes(p1.Decisions[i])]
    IN IF p2.Metrics.TotalDecisions > 0
       THEN [p2 EXCEPT !.Metrics.AverageConsensusTime =
                           totalTime(p2.Decisions, Len(p2.Decisions))
                               \div p2.Metrics.TotalDecisions]
       ELSE p2

\* CastVote between the load and the save
CastVoteBodyCheckBeforeVote(project, decisionID, option, order, t) ==
    LET i == GetCurrentDecision(project) IN
    IF ~CanAcceptVotes(project)
    THEN [err |-> ErrProjectNotActive, project |-> project]
    ELSE IF i = 0 \/ project.Decisions[i].ID # decisionID
    THEN [err |-> ErrDecisionNotFound, project |-> project]
    ELSE IF project.Decisions[i].State # DecisionStateVoting
    THEN [err |-> ErrVotingClosed, project |-> project]
    ELSE LET v == VotingCastVote(project.Decisions[i], option) IN
         IF v.err # ErrNone THEN [err |-> v.err, project |-> project]
         ELSE LET voted == [project EXCEPT !.Decisions[i] = v.d]
                  winner == CheckWinner(project.Decisions[i], project.K, order)
                  checked == IF winner # Nil
                             THEN CompleteDecision(voted, i, winner, t)
                             ELSE voted
              IN [err |-> ErrNone, project |-> [checked EXCEPT !.UpdatedAt = t]]

CastVoteBodyByID(project, decisionID, option, order, t) ==
    LET named == {j \in 1..Len(project.Decisions) : project.Decisions[j].ID = decisionID}
        i == IF named = {} THEN 0 ELSE CHOOSE j \in named : \A l \in named : j <= l
    IN
    IF ~CanAcceptVotes(project)
    THEN [err |-> ErrProjectNotActive, project |-> project]
    ELSE IF i = 0
    THEN [err |-> ErrDecisionNotFound, project |-> project]
    ELSE IF option \notin DOMAIN project.Decisions[i].Votes
    THEN [err |-> ErrInvalidVote, project |-> project]
    ELSE LET voted == [project EXCEPT !.Decisions[i].Votes[option] = @ + 1]
             winner == CheckWinner(voted.Decisions[i], project.K,
                                   CHOOSE o \in Orders(DOMAIN voted.Decisions[i].Votes) : TRUE)
             checked == IF winner # Nil
                        THEN CompleteDecision(voted, i, winner, t)
                        ELSE voted
         IN [err |-> ErrNone, project |-> [checked EXCEPT !.UpdatedAt = t]]

CastVoteBody(project, decisionID, option, order, t) ==
    LET i == GetCurrentDecision(project) IN
    IF ~CanAcceptVotes(project)
    THEN [err |-> ErrProjectNotActive, project |-> project]
    ELSE IF i = 0 \/ project.Decisions[i].ID # decisionID
    THEN [err |-> ErrDecisionNotFound, project |-> project]
    ELSE IF project.Decisions[i].State # DecisionStateVoting
    THEN [err |-> ErrVotingClosed, project |-> project]
    ELSE LET v == VotingCastVote(project.Decisions[i], option) IN
         IF v.err # ErrNone THEN [err |-> v.err, project |-> project]
         ELSE LET voted == [project EXCEPT !.Decisions[i] = v.d]
                  winner == CheckWinner(v.d, project.K, order)
                  checked == IF winner # Nil
                             THEN CompleteDecision(voted, i, winner, t)
                             ELSE voted
              IN [err |-> ErrNone, project |-> [checked EXCEPT !.UpdatedAt = t]]

\* StartDecision between the load and the save
StartDecisionBodyNoActiveCheck(project, decisionID, options, t) ==
    IF ~CanAcceptVotes(project)
    THEN [err |-> ErrProjectNotActive, project |-> project]
    ELSE LET decision == NewDecision(decisionID, project.ID, project.CurrentTurn + 1,
                                     options, t)
         IN [err |-> ErrNone,
             project |-> [project EXCEPT !.Decisions = Append(@, decision),
                                         !.CurrentTurn = decision.TurnNumber,
                                         !.UpdatedAt = t]]

StartDecisionBodyNoTurnUpdate(project, decisionID, options, t) ==
    IF ~CanAcceptVotes(project)
    THEN [err |-> ErrProjectNotActive, project |-> project]
    ELSE IF GetCurrentDecision(project) # 0
    THEN [err |-> ErrActiveDecision, project |-> project]
    ELSE LET decision == NewDecision(decisionID, project.ID, project.CurrentTurn + 1,
                                     options, t)
         IN [err |-> ErrNone,
             project |-> [project EXCEPT !.Decisions = Append(@, decision),
                                         !.UpdatedAt = t]]

StartDecisionBodyNoStateCheck(project, decisionID, options, t) ==
    IF GetCurrentDecision(project) # 0
    THEN [err |-> ErrActiveDecision, project |-> project]
    ELSE LET decision == NewDecision(decisionID, project.ID, project.CurrentTurn + 1,
                                     options, t)
         IN [err |-> ErrNone,
             project |-> [project EXCEPT !.Decisions = Append(@, decision),
                                         !.CurrentTurn = decision.TurnNumber,
                                         !.UpdatedAt = t]]

StartDecisionBody(project, decisionID, options, t) ==
    IF ~CanAcceptVotes(project)
    THEN [err |-> ErrProjectNotActive, project |-> project]
    ELSE IF GetCurrentDecision(project) # 0
    THEN [err |-> ErrActiveDecision, project |-> project]
    ELSE LET decision == NewDecision(decisionID, project.ID, project.CurrentTurn + 1,
                                     options, t)
         IN [err |-> ErrNone,
             project |-> [project EXCEPT !.Decisions = Append(@, decision),
                                         !.CurrentTurn = decision.TurnNumber,
                                         !.UpdatedAt = t]]

\* EndProject between the load and the save
EndProjectBodyCancelAll(project, t) ==
    IF IsComplete(project)
    THEN [err |-> ErrAlreadyComplete, project |-> project]
    ELSE [err |-> ErrNone,
          project |-> [project EXCEPT
                           !.State = ProjectStateCompleted,
                           !.CompletedAt = Some(t),
                           !.UpdatedAt = t,
                           !.Decisions = [i \in DOMAIN @ |->
                                             [@[i] EXCEPT !.State = DecisionStateCancelled]]]]

EndProjectBodyNoCancel(project, t) ==
    IF IsComplete(project)
    THEN [err |-> ErrAlreadyComplete, project |-> project]
    ELSE [err |-> ErrNone,
          project |-> [project EXCEPT !.State = ProjectStateCompleted,
                                      !.CompletedAt = Some(t),
                                      !.UpdatedAt = t]]

EndProjectBodyNoCompleteCheck(project, t) ==
    LET ended == [project EXCEPT !.State = ProjectStateCompleted,
                                 !.CompletedAt = Some(t),
                                 !.UpdatedAt = t]
        i == GetCurrentDecision(ended)
    IN [err |-> ErrNone,
        project |-> IF i # 0
                    THEN [ended EXCEPT !.Decisions[i].State = DecisionStateCancelled]
                    ELSE ended]

EndProjectBody(project, t) ==
    IF IsComplete(project)
    THEN [err |-> ErrAlreadyComplete, project |-> project]
    ELSE LET ended == [project EXCEPT !.State = ProjectStateCompleted,
                                      !.CompletedAt = Some(t),
                                      !.UpdatedAt = t]
             i == GetCurrentDecision(ended)
         IN [err |-> ErrNone,
             project |-> IF i # 0
                         THEN [ended EXCEPT !.Decisions[i].State = DecisionStateCancelled]
                         ELSE ended]

\* a call of the Service on the store: load, body, save
Commit(st, r, outcome) ==
    IF r.err # ErrNone THEN [err |-> r.err, store |-> st]
    ELSE SaveProject(st, r.project, outcome)

(***************************************************************************)
(* Values of the variables a specification does not use                    *)
(***************************************************************************)
ProjectIDs == {"p1"}
Procs == {"c1", "c2"}

NoRet == [op |-> "none", id |-> "", err |-> ErrNone]
NoRes == [op |-> "none", option |-> "", k |-> 0, ok |-> FALSE, winner |-> Nil]
NoDecision == NewDecision("", "", 0, <<>>, 0)
NoCall == [op |-> "none", decisionID |-> "", option |-> "", options |-> <<>>,
           err |-> ErrNone, turn |-> 0, advance |-> FALSE]
\* aliased: VoteCounts is the very map of the current Decision, not a copy
NoStatus == [valid |-> FALSE, err |-> ErrNone, Project |-> NoProject, IsActive |-> FALSE,
             CurrentDecision |-> 0, VoteCounts |-> <<>>, aliased |-> FALSE]

EmptyStore == [id \in ProjectIDs |-> NoFile]
IdleMu == [writer |-> Nil, readers |-> {}]
IdlePc == [p \in Procs |-> "idle"]
IdleCall == [p \in Procs |-> NoCall]
IdleLocal == [p \in Procs |-> [err |-> ErrNone, project |-> NoProject]]
IdleStatus == [p \in Procs |-> NoStatus]
NoCastOK == [t \in 1..(MaxDecisions + 1) |-> 0]

ServiceUnused == store = EmptyStore /\ now = 0 /\ ret = NoRet
DecisionUnused == dec = NoDecision /\ res = NoRes
ConcUnused ==
    /\ mu = IdleMu
    /\ pc = IdlePc
    /\ call = IdleCall
    /\ local = IdleLocal
    /\ status = IdleStatus
    /\ castOK = NoCastOK

NoScore == [op |-> "none", result |-> Nil]
\* NewTracker; AverageProjectScore is the fraction num / den, and calls
\* is the history of the ids recorded, which the Tracker does not keep
NoTracker == [projectScores |-> <<>>,
              globalStats |-> [TotalProjects |-> 0, TotalDecisions |-> 0,
                               AverageProjectScore |-> [num |-> 0, den |-> 1],
                               BestProjectScore |-> 0, BestProjectID |-> "",
                               AverageConsensusTime |-> 0],
              calls |-> <<>>]
NoTop == [op |-> "none", limit |-> 0, scores |-> <<>>]

ScorerUnused == given = NoProject /\ score = NoScore
TrackerUnused == tracker = NoTracker /\ top = NoTop
MetricsUnused == ScorerUnused /\ TrackerUnused

(***************************************************************************)
(* SpecDecision: the Decision methods on bounded Decisions                 *)
(***************************************************************************)
\* option lists of up to MaxOptions labels, duplicates allowed, one list for
\* each multiset of labels (the order of Options never reaches the vote map)
LabelSeq == <<"", "A", "B", "C">>
OptionSeqs ==
    UNION {{[i \in 1..n |-> LabelSeq[f[i]]] :
                f \in {g \in [1..n -> 1..Len(LabelSeq)] :
                           \A i \in 1..n, j \in 1..n : i < j => g[i] <= g[j]}} :
           n \in 0..MaxOptions}
KRange == (0 - 1)..MaxK

\* a Decision after any votes and any transition of its state
DecisionInputs ==
    UNION {{[NewDecision("d1", "p1", 1, options, 0) EXCEPT !.Votes = v, !.State = s] :
                v \in [Range(options) -> 0..MaxCount], s \in DecisionStates} :
           options \in OptionSeqs}

InitDecision ==
    /\ dec \in DecisionInputs
    /\ res = NoRes
    /\ ServiceUnused
    /\ ConcUnused
    /\ MetricsUnused

DoNewDecision(options) ==
    /\ dec' = NewDecision("d1", "p1", 1, options, 0)
    /\ res' = [NoRes EXCEPT !.op = "NewDecision"]
    /\ UNCHANGED <<svcVars, concVars, metVars>>

DoAddVote(option) ==
    /\ \A o \in DOMAIN dec.Votes : dec.Votes[o] <= MaxCount
    /\ LET r == AddVote(dec, option) IN
       /\ dec' = r.d
       /\ res' = [NoRes EXCEPT !.op = "AddVote", !.option = option, !.ok = r.ok]
    /\ UNCHANGED <<svcVars, concVars, metVars>>

DoCheckWinner(k, order) ==
    /\ res' = [NoRes EXCEPT !.op = "CheckWinner", !.k = k,
                            !.winner = CheckWinner(dec, k, order)]
    /\ UNCHANGED <<dec, svcVars, concVars, metVars>>

NextDecision ==
    \/ \E options \in OptionSeqs : DoNewDecision(options)
    \/ \E option \in VoteLabels : DoAddVote(option)
    \/ \E k \in KRange : \E order \in Orders(DOMAIN dec.Votes) : DoCheckWinner(k, order)

SpecDecision == InitDecision /\ [][NextDecision]_vars

(***************************************************************************)
(* Spec: the Service calls of one caller, one after the other              *)
(***************************************************************************)
\* inputs of the calls; CreateProject takes any int for k and maxTurns
SessionKs == 0..2
SessionMaxTurns == 1..2
\* the identifier the command line gives every Decision it starts, and the
\* identifiers callers vote with
StartIDs == {"decision_1"}
DecisionIDs == {"decision_1", "decision_2"}
OptionLists == {<<"A", "B", "C">>, <<"">>}

\* fmt.Sprintf("decision_%d", n)
DecisionName(n) == "decision_" \o ToString(n)

Ret(op, id, err) == [op |-> op, id |-> id, err |-> err]

\* time.Now(): every call finds the clock one instant later, up to MaxTime
Later(t) == IF t < MaxTime THEN t + 1 ELSE t

Init ==
    /\ store = EmptyStore
    /\ now = 0
    /\ ret = NoRet
    /\ DecisionUnused
    /\ ConcUnused
    /\ MetricsUnused

CreateProject(id, k, maxTurns, outcome) ==
    LET s == SaveProject(store, NewProject(id, k, maxTurns, now), outcome) IN
    /\ store' = s.store
    /\ ret' = Ret("CreateProject", id, s.err)
    /\ now' = Later(now)
    /\ UNCHANGED <<decVars, concVars, metVars>>

StartDecision(projectID, decisionID, options, outcome) ==
    LET g == GetProject(store, projectID) IN
    /\ StartDecisionBody(g.project, decisionID, options, now).err = ErrNone
           => Len(g.project.Decisions) < MaxDecisions
    /\ LET s == IF g.err # ErrNone THEN [err |-> g.err, store |-> store]
                ELSE Commit(store, StartDecisionBody(g.project, decisionID, options, now),
                            outcome)
       IN /\ store' = s.store
          /\ ret' = Ret("StartDecision", projectID, s.err)
    /\ now' = Later(now)
    /\ UNCHANGED <<decVars, concVars, metVars>>

CastVoteSaveOnError(projectID, decisionID, option, order, outcome) ==
    LET g == GetProject(store, projectID) IN
    /\ LET r == CastVoteBody(g.project, decisionID, option, order, now)
           s == IF g.err # ErrNone THEN [err |-> g.err, store |-> store]
                ELSE SaveProject(store, [r.project EXCEPT !.UpdatedAt = now], outcome)
       IN /\ store' = s.store
          /\ ret' = Ret("CastVote", projectID, IF r.err # ErrNone THEN r.err ELSE s.err)
    /\ now' = Later(now)
    /\ UNCHANGED <<decVars, concVars, metVars>>

CastVote(projectID, decisionID, option, order, outcome) ==
    LET g == GetProject(store, projectID) IN
    /\ LET s == IF g.err # ErrNone THEN [err |-> g.err, store |-> store]
                ELSE Commit(store, CastVoteBody(g.project, decisionID, option, order, now),
                            outcome)
       IN /\ store' = s.store
          /\ ret' = Ret("CastVote", projectID, s.err)
    /\ now' = Later(now)
    /\ UNCHANGED <<decVars, concVars, metVars>>

EndProject(projectID, outcome) ==
    LET g == GetProject(store, projectID) IN
    /\ LET s == IF g.err # ErrNone THEN [err |-> g.err, store |-> store]
                ELSE Commit(store, EndProjectBody(g.project, now), outcome)
       IN /\ store' = s.store
          /\ ret' = Ret("EndProject", projectID, s.err)
    /\ now' = Later(now)
    /\ UNCHANGED <<decVars, concVars, metVars>>

shouldEndProjectPastMax(project) ==
    project.CurrentTurn > project.MaxTurns \/ IsComplete(project)

shouldEndProject(project) ==
    project.CurrentTurn >= project.MaxTurns \/ IsComplete(project)

\* what AdvanceProject decides from the project it read:
\* an error, "end" or "start"
AdvanceDecision(g) ==
    IF g.err # ErrNone THEN g.err
    ELSE IF ~CanAcceptVotes(g.project) THEN ErrProjectNotActive
    ELSE IF GetCurrentDecision(g.project) # 0 THEN ErrStillActive
    ELSE IF shouldEndProject(g.project) THEN "end"
    ELSE "start"

AdvanceProject(projectID, options, outcome) ==
    LET g == GetProject(store, projectID)
        a == AdvanceDecision(g)
    IN
    /\ a = "start" => Len(g.project.Decisions) < MaxDecisions
    /\ LET s == IF a = "end"
                THEN Commit(store, EndProjectBody(g.project, now), outcome)
                ELSE IF a = "start"
                THEN Commit(store,
                            StartDecisionBody(g.project,
                                              DecisionName(g.project.CurrentTurn + 1),
                                              options, now),
                            outcome)
                ELSE [err |-> a, store |-> store]
       IN /\ store' = s.store
          /\ ret' = Ret("AdvanceProject", projectID, s.err)
    /\ now' = Later(now)
    /\ UNCHANGED <<decVars, concVars, metVars>>

\* the votes all Decisions of the persisted project hold, for the cap
RECURSIVE allVotes(_, _)
allVotes(decisions, i) ==
    IF i = 0 THEN 0 ELSE allVotes(decisions, i - 1) + getTotalVotes(decisions[i])

CastVotes(st, id) ==
    LET g == GetProject(st, id) IN
    IF g.err # ErrNone THEN 0 ELSE allVotes(g.project.Decisions, Len(g.project.Decisions))

CurrentKeys(st, id) ==
    LET g == GetProject(st, id) IN
    IF g.err # ErrNone \/ GetCurrentDecision(g.project) = 0 THEN {}
    ELSE DOMAIN g.project.Decisions[GetCurrentDecision(g.project)].Votes

\* the store is asked to save only when the call got that far
SaveOutcomesOf(r) == IF r.err # ErrNone THEN {"ok"} ELSE SaveOutcomes

\* the project a call loads, NoProject when there is none
Loaded(id) == GetProject(store, id).project

\* CastVote ranges over the vote map only when the vote was added
VisitOrders(id, decisionID, option) ==
    IF CastVoteBody(Loaded(id), decisionID, option, <<>>, now).err # ErrNone
    THEN {<<>>}
    ELSE Orders(CurrentKeys(store, id))

Next ==
    \/ \E id \in ProjectIDs, k \in SessionKs, maxTurns \in SessionMaxTurns,
          outcome \in SaveOutcomes :
           CreateProject(id, k, maxTurns, outcome)
    \/ \E id \in ProjectIDs, decisionID \in StartIDs, options \in OptionLists :
       \E outcome \in SaveOutcomesOf(StartDecisionBody(Loaded(id), decisionID, options, now)) :
           StartDecision(id, decisionID, options, outcome)
    \/ \E id \in ProjectIDs, decisionID \in DecisionIDs, option \in VoteLabels :
       \E order \in VisitOrders(id, decisionID, option) :
       \E outcome \in SaveOutcomesOf(CastVoteBody(Loaded(id), decisionID, option, order, now)) :
           /\ CastVotes(store, id) < MaxVotes
           /\ CastVote(id, decisionID, option, order, outcome)
    \/ \E id \in ProjectIDs :
       \E outcome \in SaveOutcomesOf(EndProjectBody(Loaded(id), now)) :
           EndProject(id, outcome)
    \/ \E id \in ProjectIDs, options \in OptionLists, outcome \in SaveOutcomes :
           AdvanceProject(id, options, outcome)

Spec == Init /\ [][Next]_vars

(***************************************************************************)
(* SpecConc: callers of one Service whose calls interleave.  A call is     *)
(* begun, takes Service.mu, loads the project, runs its body and saves,    *)
(* and releases the lock as it returns; GetProjectStatus takes the lock in *)
(* read mode.  The project was created and its first Decision started.     *)
(***************************************************************************)
ConcKs == 1..2
ConcOptions == <<"A", "B">>
ConcVoteLabels == {"A", "B", "Z"}

ConcCalls ==
    {[NoCall EXCEPT !.op = "CastVote", !.decisionID = "decision_1", !.option = o] :
         o \in ConcVoteLabels}
    \cup {[NoCall EXCEPT !.op = "StartDecision", !.decisionID = "decision_1",
                         !.options = ConcOptions],
          [NoCall EXCEPT !.op = "EndProject"],
          [NoCall EXCEPT !.op = "GetProjectStatus"],
          [NoCall EXCEPT !.op = "AdvanceProject", !.options = ConcOptions]}

\* the calls that take the read lock
ReadCalls == {"GetProjectStatus", "AdvanceProject"}

GetProjectStatusNoCopy(st, id) ==
    LET g == GetProject(st, id)
        i == GetCurrentDecision(g.project)
    IN IF g.err # ErrNone THEN [NoStatus EXCEPT !.valid = TRUE, !.err = g.err]
       ELSE [valid |-> TRUE,
             err |-> ErrNone,
             Project |-> g.project,
             IsActive |-> CanAcceptVotes(g.project),
             CurrentDecision |-> i,
             VoteCounts |-> IF i # 0 THEN g.project.Decisions[i].Votes ELSE <<>>,
             aliased |-> i # 0]

GetProjectStatus(st, id) ==
    LET g == GetProject(st, id)
        i == GetCurrentDecision(g.project)
    IN IF g.err # ErrNone THEN [NoStatus EXCEPT !.valid = TRUE, !.err = g.err]
       ELSE [valid |-> TRUE,
             err |-> ErrNone,
             Project |-> g.project,
             IsActive |-> CanAcceptVotes(g.project),
             CurrentDecision |-> i,
             VoteCounts |-> IF i # 0 THEN g.project.Decisions[i].Votes ELSE <<>>,
             aliased |-> FALSE]

\* sync.RWMutex: Lock waits for the writer and the readers, RLock for the writer
CanLockAlways(m) == TRUE

CanLock(m) == m.writer = Nil /\ m.readers = {}

CanRLock(m) == m.writer = Nil

\* the store after CreateProject
Created(k) == SaveProject(EmptyStore, NewProject("p1", k, 2, 0), "ok").store

\* the store after CreateProject and StartDecision
Started(k) ==
    LET created == SaveProject(EmptyStore, NewProject("p1", k, 2, 0), "ok").store
        r == StartDecisionBody(GetProject(created, "p1").project, "decision_1",
                               ConcOptions, Later(0))
    IN SaveProject(created, r.project, "ok").store

InitConc ==
    /\ \E k \in ConcKs : store \in {Created(k), Started(k)}
    /\ now = Later(Later(0))
    /\ ret = NoRet
    /\ DecisionUnused
    /\ ConcUnused
    /\ MetricsUnused

InFlight(op) == Cardinality({q \in Procs : call[q].op = op})

\* the calls in flight that can still append a Decision
Starting == InFlight("StartDecision") + InFlight("AdvanceProject")

Begin(p, c) ==
    /\ pc[p] = "idle"
    /\ c.op = "CastVote" => CastVotes(store, "p1") + InFlight("CastVote") < MaxConcVotes
    /\ c.op \in {"StartDecision", "AdvanceProject"}
           => Len(Loaded("p1").Decisions) + Starting < MaxDecisions
    /\ call' = [call EXCEPT ![p] = c]
    /\ pc' = [pc EXCEPT ![p] = "lock"]
    /\ UNCHANGED <<svcVars, decVars, mu, local, status, castOK, metVars>>

Lock(p) ==
    /\ pc[p] = "lock"
    /\ call[p].op \notin ReadCalls
    /\ CanLock(mu)
    /\ mu' = [mu EXCEPT !.writer = Some(p)]
    /\ pc' = [pc EXCEPT ![p] = "load"]
    /\ UNCHANGED <<svcVars, decVars, call, local, status, castOK, metVars>>

RLock(p) ==
    /\ pc[p] = "lock"
    /\ call[p].op \in ReadCalls
    /\ CanRLock(mu)
    /\ mu' = [mu EXCEPT !.readers = @ \cup {p}]
    /\ pc' = [pc EXCEPT ![p] = "read"]
    /\ UNCHANGED <<svcVars, decVars, call, local, status, castOK, metVars>>

Load(p) ==
    /\ pc[p] = "load"
    /\ local' = [local EXCEPT ![p] = GetProject(store, "p1")]
    /\ pc' = [pc EXCEPT ![p] = "save"]
    /\ UNCHANGED <<svcVars, decVars, mu, call, status, castOK, metVars>>

\* the body of the call c on the project it loaded
BodyOf(c, project, order, t) ==
    IF c.op = "CastVote" THEN CastVoteBody(project, c.decisionID, c.option, order, t)
    ELSE IF c.op = "StartDecision" THEN StartDecisionBody(project, c.decisionID, c.options, t)
    ELSE EndProjectBody(project, t)

Save(p, order, outcome) ==
    /\ pc[p] = "save"
    /\ LET g == local[p]
           s == IF g.err # ErrNone THEN [err |-> g.err, store |-> store]
                ELSE Commit(store, BodyOf(call[p], g.project, order, now), outcome)
       IN /\ store' = s.store
          /\ call' = [call EXCEPT ![p].err = s.err,
                                  ![p].turn = GetCurrentDecision(g.project)]
    /\ now' = Later(now)
    /\ local' = [local EXCEPT ![p] = IdleLocal[p]]
    /\ pc' = [pc EXCEPT ![p] = "unlock"]
    /\ UNCHANGED <<ret, decVars, mu, status, castOK, metVars>>

\* GetProjectStatus builds its status under the read lock; AdvanceProject
\* only reads the project (Service.GetProject)
Read(p) ==
    /\ pc[p] = "read"
    /\ IF call[p].op = "GetProjectStatus"
       THEN /\ status' = [status EXCEPT ![p] = GetProjectStatus(store, "p1")]
            /\ UNCHANGED local
       ELSE /\ local' = [local EXCEPT ![p] = GetProject(store, "p1")]
            /\ UNCHANGED status
    /\ pc' = [pc EXCEPT ![p] = "runlock"]
    /\ UNCHANGED <<svcVars, decVars, mu, call, castOK, metVars>>

Unlock(p) ==
    /\ pc[p] = "unlock"
    /\ mu' = [mu EXCEPT !.writer = Nil]
    /\ castOK' = IF call[p].op = "CastVote" /\ call[p].err = ErrNone
                 THEN [castOK EXCEPT ![call[p].turn] = @ + 1]
                 ELSE castOK
    /\ call' = [call EXCEPT ![p] = NoCall]
    /\ pc' = [pc EXCEPT ![p] = "idle"]
    /\ UNCHANGED <<svcVars, decVars, local, status, metVars>>

\* GetProjectStatus returns: the caller now holds the status
RUnlock(p) ==
    /\ pc[p] = "runlock"
    /\ call[p].op = "GetProjectStatus"
    /\ mu' = [mu EXCEPT !.readers = @ \ {p}]
    /\ pc' = [pc EXCEPT ![p] = "held"]
    /\ UNCHANGED <<svcVars, decVars, call, local, status, castOK, metVars>>

\* the caller writes into the VoteCounts map of the status it holds, once
Scribble(p, o) ==
    /\ pc[p] = "held"
    /\ status[p].CurrentDecision # 0
    /\ o \in DOMAIN status[p].VoteCounts
    /\ status[p].VoteCounts[o] <= MaxCount
    /\ status[p].VoteCounts = status[p].Project.Decisions[status[p].CurrentDecision].Votes
    /\ status' = [status EXCEPT
                      ![p].VoteCounts[o] = @ + 1,
                      ![p].Project.Decisions[status[p].CurrentDecision].Votes[o] =
                          IF status[p].aliased THEN @ + 1 ELSE @]
    /\ UNCHANGED <<svcVars, decVars, mu, pc, call, local, castOK, metVars>>

\* the caller drops the status
Drop(p) ==
    /\ pc[p] = "held"
    /\ status' = [status EXCEPT ![p] = NoStatus]
    /\ call' = [call EXCEPT ![p] = NoCall]
    /\ pc' = [pc EXCEPT ![p] = "idle"]
    /\ UNCHANGED <<svcVars, decVars, mu, local, castOK, metVars>>

\* AdvanceProject after Service.GetProject returned: it fails, or goes on
\* as the EndProject or StartDecision call it makes next
Advance(p) ==
    /\ pc[p] = "runlock"
    /\ call[p].op = "AdvanceProject"
    /\ mu' = [mu EXCEPT !.readers = @ \ {p}]
    /\ LET a == AdvanceDecision(local[p])
       IN IF a = "end"
          THEN /\ call' = [call EXCEPT ![p] = [NoCall EXCEPT !.op = "EndProject",
                                                             !.advance = TRUE]]
               /\ pc' = [pc EXCEPT ![p] = "lock"]
          ELSE IF a = "start"
          THEN /\ call' = [call EXCEPT ![p] =
                              [NoCall EXCEPT
                                  !.op = "StartDecision",
                                  !.decisionID =
                                      DecisionName(local[p].project.CurrentTurn + 1),
                                  !.options = call[p].options,
                                  !.advance = TRUE]]
               /\ pc' = [pc EXCEPT ![p] = "lock"]
          ELSE /\ call' = [call EXCEPT ![p] = NoCall]
               /\ pc' = [pc EXCEPT ![p] = "idle"]
    /\ local' = [local EXCEPT ![p] = IdleLocal[p]]
    /\ UNCHANGED <<svcVars, decVars, status, castOK, metVars>>

\* the visiting orders and save outcomes a caller can meet at its save step
SaveOrders(p) ==
    IF local[p].err # ErrNone \/ call[p].op # "CastVote"
       \/ GetCurrentDecision(local[p].project) = 0
    THEN {<<>>}
    ELSE Orders(DOMAIN local[p].project.Decisions[GetCurrentDecision(local[p].project)].Votes)

NextConc ==
    \E p \in Procs :
        \/ \E c \in ConcCalls : Begin(p, c)
        \/ Lock(p)
        \/ RLock(p)
        \/ Load(p)
        \/ \E order \in SaveOrders(p), outcome \in SaveOutcomes : Save(p, order, outcome)
        \/ Read(p)
        \/ Unlock(p)
        \/ RUnlock(p)
        \/ \E o \in ConcVoteLabels : Scribble(p, o)
        \/ Drop(p)
        \/ Advance(p)

SpecConc == InitConc /\ [][NextConc]_vars

(***************************************************************************)
(* Claims on the Decision methods                                          *)
(***************************************************************************)
Keys(d) == DOMAIN d.Votes
\* the options that lead every other option by at least k
Leaders(d, k) ==
    {l \in Keys(d) : \A o \in Keys(d) \ {l} : d.Votes[l] - d.Votes[o] >= k}

\* C1: with at least two distinct options, non-negative counts and k >= 1,
\* CheckWinner(k) returns the option that leads every other option by at
\* least k, and no winner when there is no such option.
C1_WinnerThreshold ==
    (res.op = "CheckWinner" /\ res.k >= 1 /\ Cardinality(Keys(dec)) >= 2)
        => /\ \A l \in Leaders(dec, res.k) : res.winner = Some(l)
           /\ Leaders(dec, res.k) = {} => res.winner = Nil

C1_Witness ==
    /\ res.op = "CheckWinner"
    /\ res.k = 2
    /\ Keys(dec) = {"A", "B", "C"}
    /\ dec.Votes["A"] = 3 /\ dec.Votes["B"] = 1 /\ dec.Votes["C"] = 0
    /\ res.winner = Some("A")

\* C2: CheckWinner(k) of a freshly created Decision (every count 0) returns
\* no winner, for any k >= 1.
C2_NoPrematureWinner ==
    (/\ res.op = "CheckWinner"
     /\ res.k >= 1
     /\ dec.State = DecisionStateVoting
     /\ \A o \in Keys(dec) : dec.Votes[o] = 0)
        => res.winner = Nil

\* C8: AddVote on a Completed or Cancelled Decision returns failure and
\* leaves every vote count unchanged, whatever the label.
C8_ClosedVotingRejects ==
    [][(res'.op = "AddVote" /\ dec.State # DecisionStateVoting)
          => (~res'.ok /\ dec'.Votes = dec.Votes)]_vars

C8_Witness ==
    /\ res.op = "AddVote"
    /\ dec.State = DecisionStateCompleted
    /\ res.option \in Keys(dec)
    /\ ~res.ok

\* C9: AddVote with a label that is not an option fails, changes no count
\* and adds no key; AddVote with an option of a Voting Decision adds 1 to
\* that option's count and changes no other.
C9_UnknownOptionRejected ==
    [][res'.op = "AddVote"
          => /\ res'.option \notin Keys(dec)
                  => (~res'.ok /\ dec'.Votes = dec.Votes)
             /\ (res'.option \in Keys(dec) /\ dec.State = DecisionStateVoting)
                  => /\ res'.ok
                     /\ dec'.Votes = [dec.Votes EXCEPT ![res'.option] = @ + 1]]_vars

C9_Witness ==
    /\ res.op = "AddVote"
    /\ res.option = "Z"
    /\ dec.State = DecisionStateVoting
    /\ Keys(dec) = {"A", "B"}
    /\ ~res.ok

(***************************************************************************)
(* Claims on the Service calls of one caller                               *)
(***************************************************************************)
VotingDecisions(p) ==
    {i \in 1..Len(p.Decisions) : p.Decisions[i].State = DecisionStateVoting}

\* the option a vote went to, from the Decision before and after it
Voted(before, after) ==
    CHOOSE o \in Keys(before) : after.Votes[o] = before.Votes[o] + 1

\* a CastVote step that returned nil, seen on the project before and after
C3_Step(pre, post) ==
    LET i == GetCurrentDecision(pre)
        d == post.Decisions[i]
        v == Voted(pre.Decisions[i], d)
    IN /\ v \in Leaders(d, pre.K)
            => /\ d.State = DecisionStateCompleted
               /\ d.Winner = Some(v)
               /\ d.CompletedAt # Nil
       /\ Leaders(d, pre.K) = {}
            => /\ d.State = DecisionStateVoting
               /\ d.Winner = Nil

\* C3: when a successful CastVote makes the voted option lead every other
\* option of the current Decision by at least K, the persisted Decision is
\* Completed with that option as Winner and CompletedAt set; when no option
\* leads all others by K after the vote, it stays Voting with no Winner.
C3_CastVoteCompletes ==
    [][(ret'.op = "CastVote" /\ ret'.err = ErrNone)
          => C3_Step(store[ret'.id].project, store'[ret'.id].project)]_vars

C3_Witness ==
    /\ ret.op = "CastVote" /\ ret.err = ErrNone
    /\ store["p1"].file
    /\ LET p == store["p1"].project IN
       /\ p.K = 2
       /\ Len(p.Decisions) = 1
       /\ p.Decisions[1].Options = <<"A", "B", "C">>
       /\ p.Decisions[1].Votes = [o \in {"A", "B", "C"} |-> IF o = "A" THEN 2 ELSE 0]
       /\ p.Decisions[1].State = DecisionStateCompleted
       /\ p.Decisions[1].Winner = Some("A")
       /\ p.Metrics.TotalDecisions = 1
       /\ p.Metrics.TotalVotes = 2

AtMostOneVoting ==
    \A id \in ProjectIDs :
        store[id].file => Cardinality(VotingDecisions(store[id].project)) <= 1

\* C4: in every persisted state at most one Decision of a project is
\* Voting, and a StartDecision called while a Decision is Voting fails and
\* changes nothing.
C4_SingleActiveDecision ==
    /\ []AtMostOneVoting
    /\ [][(/\ ret'.op = "StartDecision"
           /\ store[ret'.id].file
           /\ VotingDecisions(store[ret'.id].project) # {})
             => (ret'.err # ErrNone /\ store' = store)]_vars

C4_Witness ==
    /\ ret.op = "StartDecision"
    /\ ret.err = ErrActiveDecision
    /\ store["p1"].file
    /\ Len(store["p1"].project.Decisions) = 2
    /\ VotingDecisions(store["p1"].project) = {2}
    /\ getTotalVotes(store["p1"].project.Decisions[2]) = 1

\* a CastVote step, seen on the project before and after
C5_Step(pre, post) ==
    LET completed == {i \in 1..Len(pre.Decisions) :
                         /\ pre.Decisions[i].State = DecisionStateVoting
                         /\ post.Decisions[i].State = DecisionStateCompleted}
    IN IF completed # {}
       THEN \A i \in completed :
               /\ post.Metrics.TotalDecisions = pre.Metrics.TotalDecisions + 1
               /\ post.Metrics.TotalVotes =
                      pre.Metrics.TotalVotes
                          + SumOver(post.Decisions[i].Votes, Keys(post.Decisions[i]))
       ELSE /\ post.Metrics.TotalDecisions = pre.Metrics.TotalDecisions
            /\ post.Metrics.TotalVotes = pre.Metrics.TotalVotes

\* C5: a CastVote that completes a Decision adds 1 to TotalDecisions and the
\* sum of that Decision's final counts to TotalVotes; any other CastVote
\* leaves both counters as they were (in the project as it is read back
\* after the call; a save that cut the file short is the matter of C11).
C5_MetricsPerCompletion ==
    [][(ret'.op = "CastVote" /\ store[ret'.id].file /\ store'[ret'.id].file)
          => C5_Step(store[ret'.id].project, store'[ret'.id].project)]_vars

C5_Witness ==
    /\ ret.op = "CastVote" /\ ret.err = ErrNone
    /\ store["p1"].file
    /\ LET p == store["p1"].project IN
       /\ Len(p.Decisions) = 1
       /\ p.Decisions[1].State = DecisionStateCompleted
       /\ p.Decisions[1].Votes = [o \in {"A", "B", "C"} |->
                                     IF o = "A" THEN 3 ELSE IF o = "B" THEN 1 ELSE 0]
       /\ p.Metrics.TotalDecisions = 1
       /\ p.Metrics.TotalVotes = 4

\* C10: a CastVote that fails because the project is not Active, because
\* decisionID is not the current Voting Decision, or because the option is
\* unknown, leaves the persisted project as it was.
C10_FailedVoteNoChange ==
    [][(/\ ret'.op = "CastVote"
        /\ ret'.err \in {ErrProjectNotActive, ErrDecisionNotFound,
                         ErrVotingClosed, ErrInvalidVote})
          => store' = store]_vars

C10_Witness ==
    /\ ret.op = "CastVote"
    /\ ret.err = ErrInvalidVote
    /\ store["p1"].file
    /\ LET p == store["p1"].project IN
       /\ VotingDecisions(p) = {1}
       /\ p.UpdatedAt < now

(***************************************************************************)
(* Claims on interleaved Service calls                                     *)
(***************************************************************************)
\* CastVote calls on Decision i that saved and have not returned yet
Returning(i) ==
    Cardinality({p \in Procs : /\ pc[p] = "unlock"
                               /\ call[p].op = "CastVote"
                               /\ call[p].err = ErrNone
                               /\ call[p].turn = i})

\* C6: no vote is lost among interleaved CastVote calls of one Service: the
\* persisted counts of every Decision of the project, as it is read back,
\* sum to the number of CastVote calls that returned nil for it (plus those
\* that saved and are about to return).
C6_NoLostUpdate ==
    \A i \in 1..Len(store["p1"].project.Decisions) :
        getTotalVotes(store["p1"].project.Decisions[i]) = castOK[i] + Returning(i)

C6_Witness ==
    /\ castOK[1] = 1
    /\ pc["c1"] = "unlock" /\ call["c1"].op = "CastVote" /\ call["c1"].err = ErrNone
    /\ pc["c2"] = "lock" /\ call["c2"].op = "CastVote"
    /\ getTotalVotes(store["p1"].project.Decisions[1]) = 2

CompletedDecisions(p) ==
    {i \in 1..Len(p.Decisions) : p.Decisions[i].State = DecisionStateCompleted}

RECURSIVE completedVotes(_, _)
completedVotes(p, S) ==
    IF S = {} THEN 0
    ELSE LET i == CHOOSE j \in S : TRUE
         IN SumOver(p.Decisions[i].Votes, Keys(p.Decisions[i])) + completedVotes(p, S \ {i})

\* a project in which every vote is applied in full
WholeVotes(p) ==
    /\ \A i \in VotingDecisions(p) : Leaders(p.Decisions[i], p.K) = {}
    /\ p.Metrics.TotalDecisions = Cardinality(CompletedDecisions(p))
    /\ p.Metrics.TotalVotes = completedVotes(p, CompletedDecisions(p))

MutatingOps == {"CreateProject", "StartDecision", "CastVote", "EndProject"}

\* C11: when the save fails during CreateProject, StartDecision, CastVote or
\* EndProject, the call returns an error and the persisted project is
\* exactly what it was before the call.
C11_SaveFailureNoChange ==
    [][(ret'.op \in MutatingOps /\ ret'.err = ErrSave) => store' = store]_vars

\* the Decisions a project id holds in the store (none when no project
\* can be read)
Persisted(st, id) == st[id].project.Decisions

SessionOps == {"StartDecision", "CastVote", "EndProject", "AdvanceProject"}

\* C12: once a persisted Decision is Completed or Cancelled, no later
\* StartDecision, CastVote, EndProject or AdvanceProject on its project
\* changes its persisted vote counts.
C12_FrozenVotes ==
    [][\A id \in ProjectIDs : \A i \in 1..Len(Persisted(store, id)) :
          (/\ ret'.op \in SessionOps
           /\ store'[id].file
           /\ Persisted(store, id)[i].State # DecisionStateVoting)
             => /\ i <= Len(Persisted(store', id))
                /\ Persisted(store', id)[i].Votes = Persisted(store, id)[i].Votes]_vars

C12_Witness ==
    /\ ret.op = "CastVote" /\ ret.err = ErrNone
    /\ Len(Persisted(store, "p1")) = 2
    /\ Persisted(store, "p1")[1].State = DecisionStateCompleted
    /\ Persisted(store, "p1")[1].ID = Persisted(store, "p1")[2].ID
    /\ getTotalVotes(Persisted(store, "p1")[1]) = 2
    /\ getTotalVotes(Persisted(store, "p1")[2]) = 2

\* a step of one Decision that is persisted before and after the step
C13_Step(op, d, e, post) ==
    /\ d.State # DecisionStateVoting => (e.State = d.State /\ e.Winner = d.Winner)
    /\ (d.State = DecisionStateVoting /\ e.State = DecisionStateCompleted)
           => (op = "CastVote" /\ e.Winner # Nil)
    /\ (d.State = DecisionStateVoting /\ e.State = DecisionStateCancelled)
           => (op \in {"EndProject", "AdvanceProject"} /\ IsComplete(post) /\ e.Winner = Nil)
    /\ e.State = DecisionStateVoting => e.Winner = Nil

\* C13: a Decision is created Voting, with VotingStarted its creation time;
\* its state only moves from Voting to Completed (a winner was found) or from
\* Voting to Cancelled (the project was ended); no Service call changes the
\* state or the Winner of a persisted Decision that is Completed or
\* Cancelled.
C13_DecisionLifecycle ==
    [][\A id \in ProjectIDs :
          /\ (ret'.op \in SessionOps /\ store'[id].file)
                 => Len(Persisted(store', id)) >= Len(Persisted(store, id))
          /\ \A i \in 1..Len(Persisted(store', id)) :
                 IF i <= Len(Persisted(store, id))
                 THEN C13_Step(ret'.op, Persisted(store, id)[i], Persisted(store', id)[i],
                               store'[id].project)
                 ELSE /\ Persisted(store', id)[i].State = DecisionStateVoting
                      /\ Persisted(store', id)[i].Winner = Nil
                      /\ Persisted(store', id)[i].VotingStarted
                             = Persisted(store', id)[i].CreatedAt
                      /\ Persisted(store', id)[i].CreatedAt = now]_vars

C13_Witness ==
    /\ ret.op = "EndProject" /\ ret.err = ErrNone
    /\ Len(Persisted(store, "p1")) = 2
    /\ Persisted(store, "p1")[1].State = DecisionStateCompleted
    /\ Persisted(store, "p1")[1].Winner = Some("A")
    /\ Persisted(store, "p1")[2].State = DecisionStateCancelled
    /\ getTotalVotes(Persisted(store, "p1")[2]) = 1

\* an EndProject step that returned nil, on the project before and after
C14_Step(pre, post, t) ==
    LET i == GetCurrentDecision(pre) IN
    /\ post.State = ProjectStateCompleted
    /\ post.CompletedAt = Some(t)
    /\ post.Metrics.TotalDecisions = pre.Metrics.TotalDecisions
    /\ post.Metrics.TotalVotes = pre.Metrics.TotalVotes
    /\ Len(post.Decisions) = Len(pre.Decisions)
    /\ i # 0 => /\ post.Decisions[i].State = DecisionStateCancelled
                /\ post.Decisions[i].Votes = pre.Decisions[i].Votes
                /\ post.Decisions[i].Winner = Nil
    /\ VotingDecisions(post) = {}

\* C14: EndProject on a project that is neither Completed nor Cancelled fails
\* only when the save fails; otherwise the persisted project is Completed
\* with CompletedAt set to the time of the call, a Decision that was Voting
\* is Cancelled with its counts kept and no Winner, and TotalDecisions and
\* TotalVotes are as before the call.  The code never makes a project
\* Paused: for that state the body of EndProject is applied to each
\* persisted Active project put in it.
C14_EndProjectCompletes ==
    /\ [](\A id \in ProjectIDs :
            (store[id].file /\ store[id].project.State = ProjectStateActive)
              => LET p == [store[id].project EXCEPT !.State = ProjectStatePaused]
                     r == EndProjectBody(p, now)
                 IN r.err = ErrNone /\ C14_Step(p, r.project, now))
    /\ [][(/\ ret'.op = "EndProject"
           /\ store[ret'.id].file
           /\ ~IsComplete(store[ret'.id].project))
             => /\ ret'.err \in {ErrNone, ErrSave}
                /\ ret'.err = ErrNone
                      => /\ store'[ret'.id].file
                         /\ C14_Step(store[ret'.id].project, store'[ret'.id].project,
                                     now)]_vars

C14_Witness ==
    /\ ret.op = "EndProject" /\ ret.err = ErrNone
    /\ store["p1"].project.State = ProjectStateCompleted
    /\ store["p1"].project.K = 2
    /\ Len(Persisted(store, "p1")) = 1
    /\ Persisted(store, "p1")[1].State = DecisionStateCancelled
    /\ Persisted(store, "p1")[1].Votes = [o \in {"A", "B", "C"} |-> IF o = "A" THEN 1 ELSE 0]
    /\ store["p1"].project.Metrics.TotalVotes = 0

\* C15: EndProject on a project that is already Completed or Cancelled fails
\* and leaves the persisted project, its CompletedAt included, as it was.
\* The code never makes a project Cancelled: for that state the body of
\* EndProject is applied to each persisted Completed project put in it.
C15_EndProjectTwice ==
    /\ [](\A id \in ProjectIDs :
            (store[id].file /\ store[id].project.State = ProjectStateCompleted)
              => LET p == [store[id].project EXCEPT !.State = ProjectStateCancelled]
                     r == EndProjectBody(p, now)
                 IN r.err = ErrAlreadyComplete /\ r.project = p)
    /\ [][(/\ ret'.op = "EndProject"
           /\ store[ret'.id].file
           /\ IsComplete(store[ret'.id].project))
             => (ret'.err = ErrAlreadyComplete /\ store' = store)]_vars

C15_Witness ==
    /\ ret.op = "EndProject" /\ ret.err = ErrAlreadyComplete
    /\ store["p1"].file
    /\ store["p1"].project.State = ProjectStateCompleted
    /\ store["p1"].project.CompletedAt = Some(1)
    /\ now = 2

\* the turn numbers of a project in the store
TurnsInOrder(p) ==
    /\ p.CurrentTurn = Len(p.Decisions)
    /\ \A i \in 1..Len(p.Decisions) : p.Decisions[i].TurnNumber = i

\* C16: a successful StartDecision appends one Decision whose TurnNumber is
\* the previous CurrentTurn + 1, which is Voting with every count 0, and
\* sets CurrentTurn to that TurnNumber; so in every persisted project
\* CurrentTurn is the number of Decisions and the TurnNumber of the last one,
\* the TurnNumbers are 1..n in order, and CurrentTurn never decreases under
\* StartDecision, CastVote and EndProject.
C16_TurnNumbers ==
    /\ [](\A id \in ProjectIDs : store[id].file => TurnsInOrder(store[id].project))
    /\ [][\A id \in ProjectIDs :
             /\ (ret'.op = "StartDecision" /\ ret'.id = id /\ ret'.err = ErrNone)
                  => LET pre == store[id].project
                         post == store'[id].project
                         d == post.Decisions[Len(post.Decisions)]
                     IN /\ Len(post.Decisions) = Len(pre.Decisions) + 1
                        /\ d.TurnNumber = pre.CurrentTurn + 1
                        /\ d.State = DecisionStateVoting
                        /\ \A o \in Keys(d) : d.Votes[o] = 0
                        /\ post.CurrentTurn = d.TurnNumber
             /\ (/\ ret'.op \in {"StartDecision", "CastVote", "EndProject"}
                 /\ store[id].file /\ store'[id].file)
                  => store'[id].project.CurrentTurn >= store[id].project.CurrentTurn]_vars

C16_Witness ==
    /\ ret.op = "StartDecision" /\ ret.err = ErrNone
    /\ store["p1"].project.CurrentTurn = 2
    /\ Len(Persisted(store, "p1")) = 2
    /\ Persisted(store, "p1")[2].TurnNumber = 2
    /\ Persisted(store, "p1")[1].State = DecisionStateCompleted
    /\ getTotalVotes(Persisted(store, "p1")[2]) = 0

\* C17: StartDecision on a project whose state is not Active (Paused,
\* Completed or Cancelled) fails, appends no Decision and leaves CurrentTurn
\* as it was.  The code never makes a project Paused or Cancelled: for these
\* the body of StartDecision is applied to each persisted project put in
\* that state.
C17_StartNeedsActive ==
    /\ [](\A id \in ProjectIDs : \A st \in ProjectStates \ {ProjectStateActive} :
            \A options \in OptionLists :
              store[id].file
                => LET p == [store[id].project EXCEPT !.State = st]
                       r == StartDecisionBody(p, "decision_1", options, now)
                   IN r.err = ErrProjectNotActive /\ r.project = p)
    /\ [][(/\ ret'.op = "StartDecision"
           /\ store[ret'.id].file
           /\ store[ret'.id].project.State # ProjectStateActive)
             => (ret'.err = ErrProjectNotActive /\ store' = store)]_vars

C17_Witness ==
    /\ ret.op = "StartDecision" /\ ret.err = ErrProjectNotActive
    /\ store["p1"].file
    /\ store["p1"].project.State = ProjectStateCompleted
    /\ store["p1"].project.CurrentTurn = 1
    /\ Persisted(store, "p1")[1].State = DecisionStateCancelled

\* at least two labels, no label twice, no empty label
ValidOptions(options) ==
    /\ Len(options) >= 2
    /\ \A i, j \in 1..Len(options) : i # j => options[i] # options[j]
    /\ \A i \in 1..Len(options) : options[i] # ""

\* C18: StartDecision rejects an option list with fewer than 2 labels, with
\* a label twice or with an empty label, so every Decision of a persisted
\* project has at least 2 distinct non-empty options.
C18_OptionsValidated ==
    \A id \in ProjectIDs : \A i \in 1..Len(Persisted(store, id)) :
        ValidOptions(Persisted(store, id)[i].Options)

\* C19: CreateProject rejects k < 1 and maxTurns < 1 and persists nothing, so
\* every persisted project has K >= 1 and MaxTurns >= 1.
C19_CreateValidated ==
    \A id \in ProjectIDs :
        store[id].file => (store[id].project.K >= 1 /\ store[id].project.MaxTurns >= 1)

\* C20: CreateProject with the id of a persisted project fails and leaves
\* that project as it was.
C20_CreateExistingFails ==
    [][(ret'.op = "CreateProject" /\ store[ret'.id].file)
          => (ret'.err # ErrNone /\ store' = store)]_vars

(***************************************************************************)
(* Claims on AdvanceProject, on Decision identifiers and on the vote map   *)
(***************************************************************************)
\* an AdvanceProject step on an Active project, before and after
C22_Step(pre, post, err) ==
    LET open == GetCurrentDecision(pre) # 0
        n == Len(pre.Decisions)
    IN /\ open => (err = ErrStillActive /\ post = pre)
       /\ ~open => err \in {ErrNone, ErrSave}
       /\ (~open /\ err = ErrNone /\ pre.CurrentTurn >= pre.MaxTurns)
             => /\ post.State = ProjectStateCompleted
                /\ post.Decisions = pre.Decisions
       /\ (~open /\ err = ErrNone /\ pre.CurrentTurn < pre.MaxTurns)
             => /\ post.State = ProjectStateActive
                /\ Len(post.Decisions) = n + 1
                /\ \A i \in 1..n : post.Decisions[i] = pre.Decisions[i]
                /\ VotingDecisions(post) = {n + 1}

\* C22: AdvanceProject on an Active project fails and changes nothing while
\* a Decision is Voting; with no Voting Decision and CurrentTurn >= MaxTurns
\* it ends the project (Completed) and opens no Decision; with no Voting
\* Decision and CurrentTurn < MaxTurns it opens exactly one new Decision.
C22_AdvanceProject ==
    [][(/\ ret'.op = "AdvanceProject"
        /\ store[ret'.id].file
        /\ store[ret'.id].project.State = ProjectStateActive
        /\ ret'.err # ErrSave)
          => /\ store'[ret'.id].file
             /\ C22_Step(store[ret'.id].project, store'[ret'.id].project, ret'.err)]_vars

C22_Witness ==
    /\ ret.op = "AdvanceProject" /\ ret.err = ErrNone
    /\ store["p1"].project.State = ProjectStateCompleted
    /\ store["p1"].project.CurrentTurn = 1
    /\ store["p1"].project.MaxTurns = 1
    /\ Persisted(store, "p1")[1].State = DecisionStateCompleted

\* C24: no two Decisions of a project have the same ID: StartDecision with
\* an ID the project already holds fails and changes nothing.
C24_UniqueDecisionIDs ==
    \A id \in ProjectIDs : \A i, j \in 1..Len(Persisted(store, id)) :
        i # j => Persisted(store, id)[i].ID # Persisted(store, id)[j].ID

\* a step of one Decision that is persisted before and after the step
C25_Step(op, err, d, e) ==
    \/ e.Votes = d.Votes
    \/ /\ op = "CastVote" /\ err = ErrNone
       /\ d.State = DecisionStateVoting
       /\ \E o \in Keys(d) : e.Votes = [d.Votes EXCEPT ![o] = @ + 1]

\* C25: in every persisted Decision the keys of Votes are exactly the labels
\* of Options and every count is >= 0; a Decision enters the store with
\* every count 0; and a count changes only by +1, for one option, in a
\* CastVote that succeeded on a Voting Decision.
C25_ClosedVoteMap ==
    /\ [](\A id \in ProjectIDs : \A i \in 1..Len(Persisted(store, id)) :
            LET d == Persisted(store, id)[i]
            IN Keys(d) = Range(d.Options) /\ \A o \in Keys(d) : d.Votes[o] >= 0)
    /\ [][\A id \in ProjectIDs : \A i \in 1..Len(Persisted(store', id)) :
             IF i <= Len(Persisted(store, id))
             THEN C25_Step(ret'.op, ret'.err, Persisted(store, id)[i],
                           Persisted(store', id)[i])
             ELSE \A o \in Keys(Persisted(store', id)[i]) :
                      Persisted(store', id)[i].Votes[o] = 0]_vars

C25_Witness ==
    /\ ret.op = "CastVote" /\ ret.err = ErrNone
    /\ store["p1"].project.K = 2
    /\ Len(Persisted(store, "p1")) = 1
    /\ Persisted(store, "p1")[1].State = DecisionStateVoting
    /\ Persisted(store, "p1")[1].Votes
           = [o \in {"A", "B", "C"} |-> IF o = "C" THEN 0 ELSE 1]

(***************************************************************************)
(* Claims on GetProjectStatus and on AdvanceProject among other callers    *)
(***************************************************************************)
\* what the status p holds says of the project, VoteCounts aside
C21_View(s) == <<s.err, s.Project, s.IsActive, s.CurrentDecision>>

\* the counts of the current Decision in the project of a status
C21_Counts(s) ==
    IF s.CurrentDecision # 0 THEN s.Project.Decisions[s.CurrentDecision].Votes ELSE <<>>

\* C21: GetProjectStatus never changes the persisted project; as long as
\* no call has written between them (the read lock is held), two
\* GetProjectStatus calls return the same vote counts, current Decision and
\* IsActive, those of the persisted project; and writing into the returned
\* VoteCounts changes neither the persisted project nor the Decision the
\* status points to.
C21_StatusReadOnly ==
    /\ [](\A p \in Procs :
            (pc[p] = "runlock" /\ call[p].op = "GetProjectStatus")
                => status[p] = GetProjectStatus(store, "p1"))
    /\ [][\A p \in Procs :
             /\ (pc[p] = "read" /\ pc'[p] = "runlock") => store' = store
             /\ (pc[p] = "held" /\ pc'[p] = "held" /\ status'[p] # status[p])
                   => /\ store' = store
                      /\ C21_View(status'[p]) = C21_View(status[p])
                      /\ \A q \in Procs \ {p} : status'[q] = status[q]]_vars

C21_Witness ==
    /\ pc["c1"] = "held" /\ pc["c2"] = "runlock"
    /\ status["c1"].VoteCounts = [o \in {"A", "B"} |-> IF o = "A" THEN 2 ELSE 0]
    /\ status["c2"].VoteCounts = [o \in {"A", "B"} |-> IF o = "A" THEN 1 ELSE 0]
    /\ C21_Counts(status["c1"]) = status["c2"].VoteCounts
    /\ Persisted(store, "p1")[1].Votes = status["c2"].VoteCounts

\* C23: every Decision opened by AdvanceProject has the ID decision_<t>
\* where t is its own TurnNumber, whatever other calls run between
\* AdvanceProject's read of the project and its StartDecision.
C23_AdvanceNamesTurn ==
    [][\A p \in Procs :
          (/\ pc[p] = "save" /\ pc'[p] = "unlock"
           /\ call[p].op = "StartDecision" /\ call[p].advance
           /\ call'[p].err = ErrNone)
             => LET d == Persisted(store', "p1")[Len(Persisted(store', "p1"))]
                IN d.ID = DecisionName(d.TurnNumber)]_vars

(***************************************************************************)
(* The Scorer                                                              *)
(***************************************************************************)
\* int(x) of a score x in [0, 1]
Trunc(x) == x \div ScoreScale

\* the smallest m in 0..ScoreScale with lhs(m) >= rhs, ScoreScale when none:
\* ScoreScale * min(1, y) rounded up, for a y >= 0 given by lhs and rhs
RECURSIVE ScaledUp(_, _, _, _)
ScaledUp(m, a, b, rhs) ==
    IF m >= ScoreScale \/ a * m * m * b >= rhs THEN m
    ELSE ScaledUp(m + 1, a, b, rhs)

\* the times to consensus, in seconds, of the Decisions with a CompletedAt
RECURSIVE consensusTimes(_, _)
consensusTimes(decisions, i) ==
    IF i = 0 THEN <<>>
    ELSE IF decisions[i].CompletedAt # Nil
    THEN Append(consensusTimes(decisions, i - 1),
                decisions[i].CompletedAt[1] - decisions[i].VotingStarted)
    ELSE consensusTimes(decisions, i - 1)

RECURSIVE SumSeq(_, _)
SumSeq(seq, i) == IF i = 0 THEN 0 ELSE SumSeq(seq, i - 1) + seq[i]

\* 1 - stdDev / 60 between 0 and 1, stdDev the standard deviation of the
\* times: variance = sum of (n*t - total)^2 over n^3
calculateQualityScore(project) ==
    IF project.Metrics.TotalDecisions = 0 THEN 0
    ELSE LET times == consensusTimes(project.Decisions, Len(project.Decisions))
             n == Len(times)
         IN IF n < 2 THEN ScoreScale \div 2
            ELSE LET total == SumSeq(times, n)
                     sq == [i \in 1..n |-> (n * times[i] - total) * (n * times[i] - total)]
                 IN ScoreScale - ScaledUp(0, 60 * 60, n * n * n,
                                          ScoreScale * ScoreScale * SumSeq(sq, n))

\* 1 - |avgSeconds - 30| / 60 between 0 and 1
calculateSpeedScore(project) ==
    IF project.Metrics.AverageConsensusTime = 0 THEN 0
    ELSE LET avgSeconds == project.Metrics.AverageConsensusTime
             deviation == IF avgSeconds >= 30 THEN avgSeconds - 30 ELSE 30 - avgSeconds
         IN IF deviation >= 60 THEN 0
            ELSE ScoreScale - ((ScoreScale * deviation + 59) \div 60)

\* decision.Votes[*decision.Winner]: 0 for a key the map does not hold
winnerVotes(decision) ==
    IF decision.Winner[1] \in DOMAIN decision.Votes
    THEN decision.Votes[decision.Winner[1]]
    ELSE 0

\* the Decisions calculateConsensusScore counts
Strong(decisions) ==
    {i \in 1..Len(decisions) :
        /\ decisions[i].Winner # Nil
        /\ decisions[i].CompletedAt # Nil
        /\ getTotalVotes(decisions[i]) > 0}

\* totalStrength as a fraction num / den
RECURSIVE totalStrength(_, _)
totalStrength(decisions, S) ==
    IF S = {} THEN [num |-> 0, den |-> 1]
    ELSE LET i == CHOOSE j \in S : TRUE
             r == totalStrength(decisions, S \ {i})
             t == getTotalVotes(decisions[i])
         IN [num |-> r.num * t + winnerVotes(decisions[i]) * r.den, den |-> r.den * t]

calculateConsensusScore(project) ==
    IF Len(project.Decisions) = 0 THEN 0
    ELSE LET S == Strong(project.Decisions)
             r == totalStrength(project.Decisions, S)
         IN IF S = {} THEN 0
            ELSE (ScoreScale * r.num) \div (r.den * Cardinality(S))

\* unnamed/part_002: the Scorer the command line calls
CalculateProjectScore(project) ==
    IF ~IsComplete(project) THEN Nil
    ELSE LET avg == project.Metrics.AverageConsensusTime
             CompletionBonus == IF project.State = ProjectStateCompleted THEN 100 ELSE 0
             EfficiencyBonus == IF avg > 0 /\ avg < 30 THEN 50
                                ELSE IF avg > 0 /\ avg < 60 THEN 25
                                ELSE 0
             ParticipationBonus == project.Metrics.TotalVotes * 2
             QualityScore == calculateQualityScore(project)
             SpeedScore == calculateSpeedScore(project)
             ConsensusScore == calculateConsensusScore(project)
         IN Some([GameID |-> project.ID,
                  TotalScore |-> project.Metrics.TotalDecisions * 10 + CompletionBonus
                                 + EfficiencyBonus + ParticipationBonus
                                 + Trunc(QualityScore) + Trunc(SpeedScore)
                                 + Trunc(ConsensusScore),
                  CompletionBonus |-> CompletionBonus,
                  EfficiencyBonus |-> EfficiencyBonus,
                  ParticipationBonus |-> ParticipationBonus,
                  QualityScore |-> QualityScore,
                  SpeedScore |-> SpeedScore,
                  ConsensusScore |-> ConsensusScore,
                  GameAverageConsensusTime |-> avg])

\* internal/metrics/scoring.go: the Scorer of the Game copy; its GameScore
\* has no GameAverageConsensusTime
CalculateGameScore(game) ==
    IF ~IsComplete(game) THEN Nil
    ELSE LET avg == game.Metrics.AverageConsensusTime
             CompletionBonus == IF game.State = ProjectStateCompleted THEN 100 ELSE 0
             EfficiencyBonus == IF avg > 0 /\ avg < 10 THEN 50
                                ELSE IF avg > 0 /\ avg < 30 THEN 30
                                ELSE IF avg > 0 /\ avg < 60 THEN 15
                                ELSE 0
             ParticipationBonus == game.Metrics.TotalVotes * 2
         IN Some([GameID |-> game.ID,
                  TotalScore |-> game.Metrics.TotalDecisions * 10 + CompletionBonus
                                 + EfficiencyBonus + ParticipationBonus,
                  CompletionBonus |-> CompletionBonus,
                  EfficiencyBonus |-> EfficiencyBonus,
                  ParticipationBonus |-> ParticipationBonus,
                  QualityScore |-> calculateQualityScore(game),
                  SpeedScore |-> calculateSpeedScore(game),
                  ConsensusScore |-> calculateConsensusScore(game)])

(***************************************************************************)
(* SpecScore: the Scorer on projects the Service has played                *)
(***************************************************************************)
ScoreKs == 1..2
ScoreOptions == <<"A", "B">>
\* the votes of one round, cast until CastVote fails
RoundVotes == {<<"A">>, <<"A", "A">>, <<"A", "B", "A", "A">>}
\* seconds from StartDecision to the votes of a round
RoundTimes == {5, 30, 70}
Rounds == [votes : RoundVotes, took : RoundTimes]

RECURSIVE RoundSeqs(_)
RoundSeqs(n) ==
    IF n = 0 THEN {<<>>}
    ELSE RoundSeqs(n - 1)
         \cup {Append(r, x) : r \in {q \in RoundSeqs(n - 1) : Len(q) = n - 1}, x \in Rounds}

\* CastVote on decisionID for votes[i], votes[i+1], ... at time t, until
\* one fails
RECURSIVE CastAll(_, _, _, _, _)
CastAll(project, decisionID, votes, i, t) ==
    IF i > Len(votes) THEN project
    ELSE LET cur == GetCurrentDecision(project)
             order == IF cur = 0 THEN <<>>
                      ELSE CHOOSE o \in Orders(DOMAIN project.Decisions[cur].Votes) : TRUE
             r == CastVoteBody(project, decisionID, votes[i], order, t)
         IN IF r.err # ErrNone THEN project
            ELSE CastAll(r.project, decisionID, votes, i + 1, t)

\* StartDecision at time t and the votes of each round in turn
RECURSIVE Play(_, _, _, _)
Play(project, rounds, i, t) ==
    IF i > Len(rounds) THEN project
    ELSE LET decisionID == DecisionName(project.CurrentTurn + 1)
             s == StartDecisionBody(project, decisionID, ScoreOptions, t)
         IN IF s.err # ErrNone THEN project
            ELSE Play(CastAll(s.project, decisionID, rounds[i].votes, 1,
                              t + rounds[i].took),
                      rounds, i + 1, t + rounds[i].took)

\* the projects of id the Service can hold after at most MaxRounds rounds
Played(id) ==
    {Play(NewProject(id, k, MaxRounds, 0), rounds, 1, 0) :
         k \in ScoreKs, rounds \in RoundSeqs(MaxRounds)}

\* a played project as it is, after EndProject, or in a state the Service
\* never sets but the Scorer tests for
ScoreInputs(id) ==
    UNION {{p, EndProjectBody(p, p.UpdatedAt).project,
            [p EXCEPT !.State = ProjectStatePaused],
            [p EXCEPT !.State = ProjectStateCancelled]} : p \in Played(id)}

InitScore ==
    /\ given \in ScoreInputs("p1")
    /\ score = NoScore
    /\ TrackerUnused
    /\ ServiceUnused
    /\ DecisionUnused
    /\ ConcUnused

DoCalculateProjectScore ==
    /\ score' = [op |-> "CalculateProjectScore", result |-> CalculateProjectScore(given)]
    /\ UNCHANGED <<given, tracker, top, svcVars, decVars, concVars>>

DoCalculateGameScore ==
    /\ score' = [op |-> "CalculateGameScore", result |-> CalculateGameScore(given)]
    /\ UNCHANGED <<given, tracker, top, svcVars, decVars, concVars>>

NextScore == DoCalculateProjectScore \/ DoCalculateGameScore

SpecScore == InitScore /\ [][NextScore]_vars

\* C29: the Scorer returns no score for an Active or Paused project and a
\* score for a Completed or Cancelled one, and leaves the project as it was.
C29_ScoreOnlyTerminal ==
    /\ [](score.op # "none"
            => (score.result = Nil
                  <=> given.State \in {ProjectStateActive, ProjectStatePaused}))
    /\ [][given' = given]_vars

C29_Witness ==
    /\ score.op = "CalculateProjectScore"
    /\ score.result # Nil
    /\ given.State = ProjectStateCancelled
    /\ given.Metrics.TotalDecisions = 2

\* the efficiency tiers: no bonus without an average, and never more for a
\* slower average
C30_Tiered(avg, bonus) ==
    /\ bonus >= 0
    /\ avg = 0 => bonus = 0

\* C30: for a Completed or Cancelled project TotalScore is
\* 10 * TotalDecisions + (100 if Completed) + the efficiency bonus (tiered on
\* the average consensus time, 0 when the average is 0) + 2 * TotalVotes
\* + int(quality) + int(speed) + int(consensus), each of the three scores
\* lying in [0, 1] and each int term being 0 or 1.
C30_TotalScore ==
    (score.op # "none" /\ score.result # Nil)
        => LET s == score.result[1]
               subs == <<s.QualityScore, s.SpeedScore, s.ConsensusScore>>
           IN /\ C30_Tiered(given.Metrics.AverageConsensusTime, s.EfficiencyBonus)
              /\ \A i \in 1..3 : subs[i] \in 0..ScoreScale /\ Trunc(subs[i]) \in {0, 1}
              /\ s.TotalScore
                   = 10 * given.Metrics.TotalDecisions
                     + (IF given.State = ProjectStateCompleted THEN 100 ELSE 0)
                     + s.EfficiencyBonus
                     + 2 * given.Metrics.TotalVotes
                     + Trunc(subs[1]) + Trunc(subs[2]) + Trunc(subs[3])

(***************************************************************************)
(* The Tracker                                                             *)
(***************************************************************************)
updateGlobalStats(t, project, sc) ==
    LET ps == t.projectScores
        g == t.globalStats
        TotalProjects == g.TotalProjects + 1
        totalScoreSum == SumOver([id \in DOMAIN ps |-> ps[id].TotalScore], DOMAIN ps)
        timed == {id \in DOMAIN ps : ps[id].GameAverageConsensusTime > 0}
        better == sc.TotalScore > g.BestProjectScore
    IN [t EXCEPT !.globalStats =
           [TotalProjects |-> TotalProjects,
            TotalDecisions |-> g.TotalDecisions + project.Metrics.TotalDecisions,
            AverageProjectScore |-> [num |-> totalScoreSum, den |-> TotalProjects],
            BestProjectScore |-> IF better THEN sc.TotalScore ELSE g.BestProjectScore,
            BestProjectID |-> IF better THEN project.ID ELSE g.BestProjectID,
            AverageConsensusTime |->
                IF timed # {}
                THEN SumOver([id \in timed |-> ps[id].GameAverageConsensusTime], timed)
                         \div Cardinality(timed)
                ELSE 0]]

RecordProjectScore(t, project, sc) ==
    LET ps == t.projectScores
        put == [id \in DOMAIN ps \cup {project.ID} |->
                   IF id = project.ID THEN sc ELSE ps[id]]
    IN updateGlobalStats([t EXCEPT !.projectScores = put,
                                   !.calls = Append(@, project.ID)],
                         project, sc)

\* the inner loop of the sort, from j on
RECURSIVE sortFrom(_, _, _)
sortFrom(scores, i, j) ==
    IF j > Len(scores) THEN scores
    ELSE sortFrom(IF scores[j].TotalScore > scores[i].TotalScore
                  THEN [scores EXCEPT ![i] = scores[j], ![j] = scores[i]]
                  ELSE scores,
                  i, j + 1)

\* the outer loop of the sort, from i on
RECURSIVE sortScores(_, _)
sortScores(scores, i) ==
    IF i > Len(scores) - 1 THEN scores
    ELSE sortScores(sortFrom(scores, i, i + 1), i + 1)

Cut(scores, limit) ==
    IF limit > 0 /\ Len(scores) > limit THEN SubSeq(scores, 1, limit) ELSE scores

GetTopProjectsCutFirst(t, limit, order) ==
    sortScores(Cut([i \in 1..Len(order) |-> t.projectScores[order[i]]], limit), 1)

\* order: the order in which the range over the map visits the ids
GetTopProjects(t, limit, order) ==
    Cut(sortScores([i \in 1..Len(order) |-> t.projectScores[order[i]]], 1), limit)

(***************************************************************************)
(* SpecTracker: RecordProjectScore and GetTopProjects on one Tracker       *)
(***************************************************************************)
TrackIDs == {"p1", "p2", "p3"}
TopLimits == (0 - 1)..(MaxRecords + 1)

\* the projects recorded: ended by EndProject after at most one round, K = 1
TrackInputs ==
    UNION {{p \in ScoreInputs(id) : /\ p.State = ProjectStateCompleted
                                    /\ p.K = 1
                                    /\ Len(p.Decisions) <= 1} : id \in TrackIDs}

InitTracker ==
    /\ tracker = NoTracker
    /\ top = NoTop
    /\ ScorerUnused
    /\ ServiceUnused
    /\ DecisionUnused
    /\ ConcUnused

DoRecordProjectScore(project) ==
    /\ tracker.globalStats.TotalProjects < MaxRecords
    /\ tracker' = RecordProjectScore(tracker, project, CalculateProjectScore(project)[1])
    /\ top' = [NoTop EXCEPT !.op = "RecordProjectScore"]
    /\ UNCHANGED <<given, score, svcVars, decVars, concVars>>

DoGetTopProjects(limit, order) ==
    /\ top' = [op |-> "GetTopProjects", limit |-> limit,
               scores |-> GetTopProjects(tracker, limit, order)]
    /\ UNCHANGED <<tracker, given, score, svcVars, decVars, concVars>>

NextTracker ==
    \/ \E project \in TrackInputs : DoRecordProjectScore(project)
    \/ \E limit \in TopLimits, order \in Orders(DOMAIN tracker.projectScores) :
           DoGetTopProjects(limit, order)

SpecTracker == InitTracker /\ [][NextTracker]_vars

\* the scores the Tracker holds
Held == tracker.projectScores
HeldMax(id) == \A o \in DOMAIN Held : Held[o].TotalScore <= Held[id].TotalScore
FirstCall(id) == CHOOSE i \in 1..Len(tracker.calls) :
                    /\ tracker.calls[i] = id
                    /\ \A j \in 1..(i - 1) : tracker.calls[j] # id

\* C26: after any RecordProjectScore calls, an id recorded twice included,
\* BestProjectID is a held project whose TotalScore, BestProjectScore, is
\* the maximum of the scores held, and among the held projects with that
\* score it is the one recorded first.
C26_BestIsMaxHeld ==
    DOMAIN Held # {}
        => LET best == tracker.globalStats.BestProjectID
           IN /\ best \in DOMAIN Held
              /\ HeldMax(best)
              /\ tracker.globalStats.BestProjectScore = Held[best].TotalScore
              /\ \A o \in DOMAIN Held : HeldMax(o) => FirstCall(best) <= FirstCall(o)

\* C27: after any RecordProjectScore calls, an id recorded twice included,
\* TotalProjects is the number of projects held and AverageProjectScore is
\* the arithmetic mean of the TotalScores held.
C27_CountAndMean ==
    LET n == Cardinality(DOMAIN Held)
        avg == tracker.globalStats.AverageProjectScore
    IN /\ tracker.globalStats.TotalProjects = n
       /\ n > 0 => avg.num * n
                      = avg.den * SumOver([id \in DOMAIN Held |-> Held[id].TotalScore],
                                          DOMAIN Held)

\* C28: GetTopProjects returns held scores, each once, in non-increasing
\* order of TotalScore; with limit > 0 and more than limit scores held it
\* returns exactly limit of them, none lower than a score left out;
\* otherwise it returns all of them.
C28_TopProjects ==
    top.op = "GetTopProjects"
        => LET r == top.scores
               n == Cardinality(DOMAIN Held)
               ids == {r[i].GameID : i \in 1..Len(r)}
           IN /\ Len(r) = IF top.limit > 0 /\ n > top.limit THEN top.limit ELSE n
              /\ \A i \in 1..Len(r) : r[i].GameID \in DOMAIN Held /\ Held[r[i].GameID] = r[i]
              /\ Cardinality(ids) = Len(r)
              /\ \A i \in 1..Len(r) : \A j \in i..Len(r) :
                     r[i].TotalScore >= r[j].TotalScore
              /\ \A o \in DOMAIN Held \ ids : \A i \in 1..Len(r) :
                     Held[o].TotalScore <= r[i].TotalScore

C28_Witness ==
    /\ top.op = "GetTopProjects" /\ top.limit = 2
    /\ Cardinality(DOMAIN Held) = 3
    /\ Len(top.scores) = 2
    /\ top.scores[1].TotalScore > top.scores[2].TotalScore
    /\ \E o \in DOMAIN Held : Held[o].TotalScore < top.scores[2].TotalScore

(***************************************************************************)
(* Claims on the winner rule, on reachable projects and on termination     *)
(***************************************************************************)
\* C33: for every k >= 1 and every vote map, CheckWinner(k) returns the same
\* result (the same winner, or nil) in whatever order the range over the
\* map visits the options.
C33_OrderIndependent ==
    (res.op = "CheckWinner" /\ res.k >= 1)
        => \A order \in Orders(DOMAIN dec.Votes) :
               CheckWinner(dec, res.k, order) = res.winner

\* two options tie for the most votes, so the orders differ in the maximum
\* the first loop finds
C33_Witness ==
    /\ res.op = "CheckWinner" /\ res.k = 1
    /\ res.winner = Nil
    /\ \E a, b \in DOMAIN dec.Votes :
           /\ a # b /\ dec.Votes[a] = dec.Votes[b] /\ dec.Votes[a] >= 1
           /\ \A o \in DOMAIN dec.Votes : dec.Votes[o] <= dec.Votes[a]

\* C34: in every persisted project with K >= 1 a Decision has a Winner
\* exactly when it is Completed and exactly when its CompletedAt is set; the
\* Winner is one of its options, has at least one vote and strictly more
\* votes than every other option.
C34_WinnerIffCompleted ==
    \A id \in ProjectIDs : \A i \in 1..Len(Persisted(store, id)) :
        LET d == Persisted(store, id)[i] IN
        store[id].project.K >= 1
            => /\ (d.Winner # Nil) <=> (d.State = DecisionStateCompleted)
               /\ (d.Winner # Nil) <=> (d.CompletedAt # Nil)
               /\ d.Winner # Nil
                     => /\ d.Winner[1] \in Range(d.Options)
                        /\ d.Winner[1] \in Keys(d)
                        /\ d.Votes[d.Winner[1]] >= 1
                        /\ \A o \in Keys(d) \ {d.Winner[1]} :
                               d.Votes[o] < d.Votes[d.Winner[1]]

C34_Witness ==
    /\ store["p1"].project.K = 2
    /\ Len(Persisted(store, "p1")) = 2
    /\ Persisted(store, "p1")[1].Winner = Some("A")
    /\ Persisted(store, "p1")[1].Votes = [o \in {"A", "B", "C"} |->
                                             IF o = "A" THEN 3 ELSE IF o = "B" THEN 1 ELSE 0]
    /\ Persisted(store, "p1")[2].State = DecisionStateCancelled
    /\ Persisted(store, "p1")[2].Winner = Nil

\* C35: in every persisted state a project that is not Active has no
\* Decision in state Voting.
C35_EndedHasNoVoting ==
    \A id \in ProjectIDs :
        (store[id].file /\ store[id].project.State # ProjectStateActive)
            => VotingDecisions(store[id].project) = {}

C35_Witness ==
    /\ ret.op = "EndProject" /\ ret.err = ErrNone
    /\ store["p1"].project.State = ProjectStateCompleted
    /\ Len(Persisted(store, "p1")) = 2
    /\ Persisted(store, "p1")[1].State = DecisionStateCompleted
    /\ Persisted(store, "p1")[2].State = DecisionStateCancelled

\* C36: in every persisted state of a project CurrentTurn <= MaxTurns and
\* the number of Decisions is at most MaxTurns.
C36_TurnLimit ==
    \A id \in ProjectIDs :
        store[id].file
            => /\ store[id].project.CurrentTurn <= store[id].project.MaxTurns
               /\ Len(store[id].project.Decisions) <= store[id].project.MaxTurns

\* the error Service.CastVote returns for a project as loaded, before any save
CastVoteErr(project, decisionID, option) ==
    CastVoteBody(project, decisionID, option, <<>>, now).err

\* the Decisions of a project that carry an identifier
Named(project, decisionID) ==
    {i \in 1..Len(project.Decisions) : project.Decisions[i].ID = decisionID}

\* C38 as stated: Service.CastVote never returns the voting-closed error,
\* and a CastVote naming a Decision that is already Completed or Cancelled
\* fails with decision-not-found.
C38_ClosedIsNotFound ==
    \A id \in ProjectIDs : \A decisionID \in DecisionIDs : \A option \in VoteLabels :
        LET project == store[id].project IN
        store[id].file
            => /\ CastVoteErr(project, decisionID, option) # ErrVotingClosed
               /\ (\E i \in Named(project, decisionID) :
                       project.Decisions[i].State \in
                           {DecisionStateCompleted, DecisionStateCancelled})
                      => CastVoteErr(project, decisionID, option) = ErrDecisionNotFound

\* C38, amended: Service.CastVote never returns the voting-closed error.  A
\* CastVote whose identifier is not that of the current Voting Decision
\* fails and changes nothing: with project-not-active when the project is
\* not Active (every Cancelled Decision is in such a project), with
\* decision-not-found otherwise.  A CastVote whose identifier is that of the
\* current Voting Decision of an Active project is not refused with
\* decision-not-found, even when an earlier Completed Decision has the same
\* identifier.
C38_NeverVotingClosed ==
    \A id \in ProjectIDs : \A decisionID \in DecisionIDs : \A option \in VoteLabels :
        LET project == store[id].project
            closed == {i \in Named(project, decisionID) :
                          project.Decisions[i].State # DecisionStateVoting}
            open == {i \in Named(project, decisionID) :
                        project.Decisions[i].State = DecisionStateVoting}
            err == CastVoteErr(project, decisionID, option)
        IN
        store[id].file
            => /\ err # ErrVotingClosed
               /\ ~CanAcceptVotes(project) => err = ErrProjectNotActive
               /\ (CanAcceptVotes(project) /\ open = {}) => err = ErrDecisionNotFound
               /\ (CanAcceptVotes(project) /\ open # {})
                      => err \in {ErrNone, ErrInvalidVote}
               /\ err \in {ErrProjectNotActive, ErrDecisionNotFound}
                      => CastVoteBody(project, decisionID, option, <<>>, now).project
                             = project

\* a CastVote naming the Completed Decision of an Active project that has no
\* Voting Decision has just failed with decision-not-found
C38_Witness ==
    /\ ret.op = "CastVote" /\ ret.err = ErrDecisionNotFound
    /\ store["p1"].file
    /\ CanAcceptVotes(store["p1"].project)
    /\ Len(store["p1"].project.Decisions) = 1
    /\ store["p1"].project.Decisions[1].State = DecisionStateCompleted
    /\ store["p1"].project.Decisions[1].ID = "decision_1"
    /\ CastVoteErr(store["p1"].project, "decision_1", "A") = ErrDecisionNotFound

(***************************************************************************)
(* Scorer.CalculateDecisionScore: the score of one Decision.  The float64   *)
(* fields are kept as floor(ScoreScale * x), times are seconds.             *)
(***************************************************************************)
NoDecisionScore(decision) ==
    [DecisionID |-> decision.ID, ConsensusSpeed |-> 0, ConsensusStrength |-> 0,
     VoteEfficiency |-> 0, TotalScore |-> 0]

\* 0.7, 1.0, 0.8, 0.5, 0.2
calculateTimeScore(seconds) ==
    IF seconds < 5 THEN (7 * ScoreScale) \div 10
    ELSE IF seconds <= 30 THEN ScoreScale
    ELSE IF seconds <= 60 THEN (8 * ScoreScale) \div 10
    ELSE IF seconds <= 120 THEN (5 * ScoreScale) \div 10
    ELSE (2 * ScoreScale) \div 10

\* the largest count among the options other than the Winner, 0 when none
maxOtherVotes(decision) ==
    LET others == {decision.Votes[o] : o \in DOMAIN decision.Votes \ {decision.Winner[1]}}
    IN IF others = {} THEN 0 ELSE CHOOSE m \in others : \A n \in others : n <= m

votesAhead(decision) == winnerVotes(decision) - maxOtherVotes(decision)

\* the 0.1 added for a Winner more than k ahead
StrengthBonus(decision, k) == IF votesAhead(decision) > k THEN ScoreScale \div 10 ELSE 0

ConsensusStrength(decision, k) ==
    IF decision.Winner # Nil /\ getTotalVotes(decision) > 0
    THEN (ScoreScale * winnerVotes(decision)) \div getTotalVotes(decision)
             + StrengthBonus(decision, k)
    ELSE 0

VoteEfficiency(decision) ==
    LET totalPossibleVotes == Len(decision.Options) * 10
        scaled == (ScoreScale * getTotalVotes(decision)) \div totalPossibleVotes
    IN IF totalPossibleVotes > 0
       THEN (IF scaled > ScoreScale THEN ScoreScale ELSE scaled)
       ELSE 0

CalculateDecisionScore(decision, k) ==
    IF decision.CompletedAt = Nil THEN NoDecisionScore(decision)
    ELSE LET speed == calculateTimeScore(decision.CompletedAt[1] - decision.VotingStarted)
             strength == ConsensusStrength(decision, k)
             efficiency == VoteEfficiency(decision)
         IN [DecisionID |-> decision.ID,
             ConsensusSpeed |-> speed,
             ConsensusStrength |-> strength,
             VoteEfficiency |-> efficiency,
             TotalScore |-> (4 * speed + 4 * strength + 2 * efficiency) \div 10]

\* C32: in a project with K >= 1 every Decision that Service.CastVote
\* completed has its Winner at most K votes ahead of every other option, and
\* exactly K ahead of the runner-up when it has at least two options; so
\* CalculateDecisionScore with the project's K gives it the plain share of
\* the Winner's votes as ConsensusStrength, without the bonus.
C32_LeadIsExactlyK ==
    \A id \in ProjectIDs : \A i \in 1..Len(Persisted(store, id)) :
        LET d == Persisted(store, id)[i]
            k == store[id].project.K
        IN (k >= 1 /\ d.State = DecisionStateCompleted)
               => /\ votesAhead(d) <= k
                  /\ Len(d.Options) >= 2 => votesAhead(d) = k
                  /\ StrengthBonus(d, k) = 0
                  /\ CalculateDecisionScore(d, k).ConsensusStrength
                         = (ScoreScale * winnerVotes(d)) \div getTotalVotes(d)

\* a CastVote has just completed a Decision of three options in a project
\* with K = 2, the Winner on 3 votes and the runner-up on 1
C32_Witness ==
    /\ ret.op = "CastVote" /\ ret.err = ErrNone
    /\ store["p1"].file /\ store["p1"].project.K = 2
    /\ Len(store["p1"].project.Decisions) = 1
    /\ store["p1"].project.Decisions[1].State = DecisionStateCompleted
    /\ store["p1"].project.Decisions[1].Winner = Some("B")
    /\ store["p1"].project.Decisions[1].Votes =
           [o \in {"A", "B", "C"} |-> IF o = "B" THEN 3 ELSE IF o = "C" THEN 1 ELSE 0]
    /\ CalculateDecisionScore(store["p1"].project.Decisions[1], 2).ConsensusStrength
           = (ScoreScale * 3) \div 4

(***************************************************************************)
(* voting.StrategicVoter and voting.EnhancedVotingService: votes chosen by *)
(* a strategy and added to the Decision the caller holds in memory.  A     *)
(* random number is a free choice of an index into Options, a range over   *)
(* the vote map a free choice of the order of its keys.                    *)
(***************************************************************************)
MaxAgents == 3

ErrStrategicClosed == "voting is closed for this decision"
ErrStrategicInvalid == "invalid voting option"
ErrSimulateInvalid == "failed to cast vote for agent"

\* the values rng.Intn(len(Options)) + 1 can take, 0 when it is not called
Picks(decision) == IF Len(decision.Options) = 0 THEN {0} ELSE 1..Len(decision.Options)

RandomDecideVote(decision, pick) ==
    IF Len(decision.Options) = 0 THEN "" ELSE decision.Options[pick]

\* the first loop of ConsensusStrategy.DecideVote: the first key, in the
\* order of the range, with the largest count above 0
RECURSIVE leadingFrom(_, _, _, _)
leadingFrom(decision, order, i, lead) ==
    IF i > Len(order) THEN lead
    ELSE leadingFrom(decision, order, i + 1,
                     IF decision.Votes[order[i]] > lead.maxVotes
                     THEN [leadingOption |-> order[i], maxVotes |-> decision.Votes[order[i]]]
                     ELSE lead)

\* the fallback to a random option is dropped
ConsensusDecideVoteNoFallback(decision, order, pick) ==
    IF Len(decision.Options) = 0 THEN ""
    ELSE leadingFrom(decision, order, 1, [leadingOption |-> "", maxVotes |-> 0]).leadingOption

ConsensusDecideVote(decision, order, pick) ==
    IF Len(decision.Options) = 0 THEN ""
    ELSE LET lead == leadingFrom(decision, order, 1, [leadingOption |-> "", maxVotes |-> 0])
         IN IF lead.leadingOption # "" /\ lead.maxVotes > 0
            THEN lead.leadingOption
            ELSE decision.Options[pick]

\* InitializeStrategies registers "optimal" with the game type "general",
\* for which OptimalStrategy.DecideVote is that of a new ConsensusStrategy
OptimalDecideVote(decision, order, pick) == ConsensusDecideVote(decision, order, pick)

\* the names the callers give: the three registered ones and one that
\* GetStrategy does not find
StrategyNames == {"random", "consensus", "optimal", "unregistered"}

\* StrategicVoter.DecideVote: GetStrategy defaults to a new RandomStrategy
DecideVote(strategyName, decision, order, pick) ==
    IF strategyName = "consensus" THEN ConsensusDecideVote(decision, order, pick)
    ELSE IF strategyName = "optimal" THEN OptimalDecideVote(decision, order, pick)
    ELSE RandomDecideVote(decision, pick)

CastStrategicVote(decision, strategyName, order, pick) ==
    IF decision.State # DecisionStateVoting
    THEN [err |-> ErrStrategicClosed, d |-> decision]
    ELSE LET r == AddVote(decision, DecideVote(strategyName, decision, order, pick))
         IN IF ~r.ok THEN [err |-> ErrStrategicInvalid, d |-> decision]
            ELSE [err |-> ErrNone, d |-> r.d]

strategies == <<"random", "consensus", "optimal">>

\* the outcomes of the loop of SimulateAgentVoting from agent i on: one for
\* every choice the strategies can make
RECURSIVE SimulateFrom(_, _, _)
SimulateFrom(decision, i, agentCount) ==
    IF i >= agentCount THEN {[err |-> ErrNone, d |-> decision]}
    ELSE UNION {LET r == AddVote(decision,
                                 DecideVote(strategies[(i % Len(strategies)) + 1],
                                            decision, order, pick))
                IN IF ~r.ok THEN {[err |-> ErrSimulateInvalid, d |-> decision]}
                   ELSE SimulateFrom(r.d, i + 1, agentCount) :
                <<order, pick>> \in Orders(DOMAIN decision.Votes) \X Picks(decision)}

SimulateAgentVoting(decision, agentCount) == SimulateFrom(decision, 0, agentCount)

(***************************************************************************)
(* SpecStrategy: a caller that loads a project with GetProjectStatus and   *)
(* hands one of its Decisions to the EnhancedVotingService, as             *)
(* handleStrategicVote and handleSimulateVoting do with the current one,   *)
(* while Service calls go on changing the persisted project.               *)
(***************************************************************************)
StrategyKs == 1..2
StrategyOptionLists == {<<>>, <<"A", "B">>, <<"", "A">>}

\* the store after CreateProject and StartDecision with the options
StartedWith(k, options) ==
    LET r == StartDecisionBody(GetProject(Created(k), "p1").project, "decision_1",
                               options, Later(0))
    IN SaveProject(Created(k), r.project, "ok").store

InitStrategy ==
    /\ \E k \in StrategyKs, options \in StrategyOptionLists :
           store = StartedWith(k, options)
    /\ now = Later(Later(0))
    /\ ret = NoRet
    /\ DecisionUnused
    /\ ConcUnused
    /\ MetricsUnused

\* Service.CastVote and Service.EndProject on the persisted project
StrategyServiceCastVote(option, order) ==
    /\ CastVotes(store, "p1") < MaxVotes
    /\ LET s == Commit(store, CastVoteBody(Loaded("p1"), "decision_1", option, order, now),
                       "ok")
       IN /\ store' = s.store
          /\ ret' = Ret("CastVote", "p1", s.err)
    /\ res' = [NoRes EXCEPT !.op = "CastVote"]
    /\ UNCHANGED <<now, dec, concVars, metVars>>

StrategyServiceEndProject ==
    /\ LET s == Commit(store, EndProjectBody(Loaded("p1"), now), "ok")
       IN /\ store' = s.store
          /\ ret' = Ret("EndProject", "p1", s.err)
    /\ res' = [NoRes EXCEPT !.op = "EndProject"]
    /\ UNCHANGED <<now, dec, concVars, metVars>>

\* status.Project.Decisions[i] of a fresh GetProjectStatus
LoadDecision(i) ==
    /\ dec' = GetProjectStatus(store, "p1").Project.Decisions[i]
    /\ res' = [NoRes EXCEPT !.op = "GetProjectStatus"]
    /\ UNCHANGED <<svcVars, concVars, metVars>>

DoCastStrategicVote(strategyName, order, pick) ==
    /\ dec # NoDecision
    /\ getTotalVotes(dec) < MaxVotes
    /\ LET r == CastStrategicVote(dec, strategyName, order, pick) IN
       /\ dec' = r.d
       /\ res' = [NoRes EXCEPT !.op = "CastStrategicVote", !.option = strategyName,
                               !.ok = (r.err = ErrNone)]
    /\ UNCHANGED <<svcVars, concVars, metVars>>

DoSimulateAgentVoting(agentCount, r) ==
    /\ dec # NoDecision
    /\ getTotalVotes(dec) < MaxVotes
    /\ dec' = r.d
    /\ res' = [NoRes EXCEPT !.op = "SimulateAgentVoting", !.k = agentCount,
                            !.ok = (r.err = ErrNone)]
    /\ UNCHANGED <<svcVars, concVars, metVars>>

NextStrategy ==
    \/ \E option \in {"A", "B", ""} :
       \E order \in VisitOrders("p1", "decision_1", option) :
           StrategyServiceCastVote(option, order)
    \/ StrategyServiceEndProject
    \/ \E i \in 1..Len(Loaded("p1").Decisions) : LoadDecision(i)
    \/ \E strategyName \in StrategyNames, order \in Orders(DOMAIN dec.Votes),
          pick \in Picks(dec) :
           DoCastStrategicVote(strategyName, order, pick)
    \/ \E agentCount \in 0..MaxAgents :
       \E r \in SimulateAgentVoting(dec, agentCount) :
           DoSimulateAgentVoting(agentCount, r)

SpecStrategy == InitStrategy /\ [][NextStrategy]_vars

\* what a call changed of the Decision it was given, the votes left aside
SameButVotes(d, e) == [d EXCEPT !.Votes = e.Votes] = e

\* C31: CastStrategicVote on a Voting Decision with at least one option, for
\* each of the names random, consensus, optimal and an unregistered one,
\* returns no error and adds one vote to one of the Decision's options, the
\* total growing by one; on a Decision that is not Voting it returns an
\* error and changes no count.
C31_OneStrategicVote ==
    [][res'.op = "CastStrategicVote"
          => /\ (dec.State = DecisionStateVoting /\ Len(dec.Options) > 0)
                   => /\ res'.ok
                      /\ \E o \in Range(dec.Options) :
                             /\ o \in DOMAIN dec.Votes
                             /\ dec'.Votes = [dec.Votes EXCEPT ![o] = @ + 1]
                      /\ getTotalVotes(dec') = getTotalVotes(dec) + 1
             /\ dec.State # DecisionStateVoting
                   => ~res'.ok /\ dec'.Votes = dec.Votes]_vars

\* the consensus strategy has followed the leader B of a Voting Decision
C31_Witness ==
    /\ res.op = "CastStrategicVote" /\ res.option = "consensus" /\ res.ok
    /\ dec.State = DecisionStateVoting
    /\ dec.Options = <<"A", "B">>
    /\ dec.Votes = [o \in {"A", "B"} |-> IF o = "B" THEN 3 ELSE 1]

\* C37: CastStrategicVote and SimulateAgentVoting leave the persisted
\* project as it is and change nothing of the Decision they are given but
\* its votes, so it keeps its state and has no Winner whatever the lead;
\* SimulateAgentVoting(n) on a Voting Decision adds exactly n votes.
C37_InMemoryOnly ==
    [][res'.op \in {"CastStrategicVote", "SimulateAgentVoting"}
          => /\ store' = store
             /\ SameButVotes(dec, dec')
             /\ (res'.op = "SimulateAgentVoting" /\ dec.State = DecisionStateVoting)
                   => getTotalVotes(dec') = getTotalVotes(dec) + res'.k]_vars

(***************************************************************************)
(* SpecLive: from a project with an open Decision on, every call is a      *)
(* Service.CastVote for one option of that Decision and every save         *)
(* succeeds.  dec keeps the Decision as it was at that point and res the   *)
(* option and the number of votes accepted since; neither is state of the  *)
(* program.                                                                *)
(***************************************************************************)
LiveKs == 1..2
LiveOptionLists == {<<"A", "B">>, <<"A", "">>, <<"A">>}

\* the stores a CastVote makes of a store with an open Decision
LiveVoted(st) ==
    {SaveProject(st, CastVoteBody(st["p1"].project, "decision_1", option, order,
                                  Later(Later(0))).project, "ok").store :
         <<option, order>> \in (DOMAIN st["p1"].project.Decisions[1].Votes)
                                   \X Orders(DOMAIN st["p1"].project.Decisions[1].Votes)}

LiveOpen(S) == {st \in S : st["p1"].project.Decisions[1].State = DecisionStateVoting}

\* the stores with an open Decision after at most n votes, from those of
\* the last round on
RECURSIVE LiveStores(_, _, _)
LiveStores(seen, last, n) ==
    IF n = 0 \/ last = {} THEN seen
    ELSE LET new == LiveOpen(UNION {LiveVoted(st) : st \in last}) \ seen
         IN LiveStores(seen \cup new, new, n - 1)

\* the stores after CreateProject and StartDecision
LiveStarted == {StartedWith(k, options) : k \in LiveKs, options \in LiveOptionLists}

\* largest other count - the option's count + K
LiveNeed(d, option, k) ==
    LET others == {d.Votes[q] : q \in DOMAIN d.Votes \ {option}}
        largest == IF others = {} THEN 0 ELSE CHOOSE m \in others : \A n \in others : n <= m
    IN largest - d.Votes[option] + k

InitLive ==
    /\ store \in LiveStores(LiveStarted, LiveStarted, MaxVotes)
    /\ now = Later(Later(0))
    /\ ret = NoRet
    /\ dec = store["p1"].project.Decisions[1]
    /\ \E option \in DOMAIN dec.Votes : res = [NoRes EXCEPT !.op = "CastVote", !.option = option]
    /\ ConcUnused
    /\ MetricsUnused

LiveCastVote(order) ==
    /\ \E s \in {Commit(store, CastVoteBody(Loaded("p1"), "decision_1", res.option, order,
                                            now), "ok")} :
          /\ store' = s.store
          /\ ret' = Ret("CastVote", "p1", s.err)
          /\ res' = [res EXCEPT !.k = IF s.err = ErrNone THEN @ + 1 ELSE @]
    /\ now' = Later(now)
    /\ UNCHANGED <<dec, concVars, metVars>>

NextLive == \E order \in VisitOrders("p1", "decision_1", res.option) : LiveCastVote(order)

\* votes keep arriving: a CastVote that can be made is made
SpecLive == InitLive /\ [][NextLive]_vars /\ WF_vars(NextLive)

LiveDone ==
    /\ store["p1"].project.Decisions[1].State = DecisionStateCompleted
    /\ store["p1"].project.Decisions[1].Winner = Some(res.option)

\* C40: in an Active project with K >= 1 and an open Decision, once every
\* CastVote is for one option of the Decision, votes keep arriving and every
\* save succeeds, the Decision is eventually Completed with that option as
\* Winner, and no more than (largest other count - the option's count + K)
\* votes are accepted before it is.
C40_VotesDecide ==
    /\ [](res.k <= LiveNeed(dec, res.option, store["p1"].project.K))
    /\ [](res.k = LiveNeed(dec, res.option, store["p1"].project.K) => LiveDone)
    /\ <>LiveDone

\* the option that was one vote behind the leader, with K = 2, has won after
\* three more votes
C40_Witness ==
    /\ LiveDone
    /\ store["p1"].project.K = 2
    /\ dec.Votes = [o \in {"A", "B"} |-> IF o = "B" THEN 2 ELSE 1]
    /\ res.option = "A" /\ res.k = 3
    /\ store["p1"].project.Decisions[1].Votes = [o \in {"A", "B"} |-> IF o = "B" THEN 2 ELSE 4]

(***************************************************************************)
(* SpecLocks: the three mutexes and the order in which every Service call  *)
(* takes and releases them.  Here mu is one sync.RWMutex for each of       *)
(* Service.mu, VotingService.mu and JSONProjectStore.mu, pc[p] is what is  *)
(* left of the locking of the call p is in, and call[p].op is its name.    *)
(* What a call reads and writes is left to SpecConc; a call that may       *)
(* return early has one path for each return.                              *)
(***************************************************************************)
Locks == {"service", "voting", "store"}

\* Service.mu is taken first, VotingService.mu inside it, the store's last
Rank(l) == IF l = "service" THEN 1 ELSE IF l = "voting" THEN 2 ELSE 3

LockStep(do, on) == [do |-> do, on |-> on]

\* mu.Lock(); defer mu.Unlock() around the steps inner
WriteLocked(l, inner) == <<LockStep("Lock", l)>> \o inner \o <<LockStep("Unlock", l)>>

\* mu.RLock(); defer mu.RUnlock() around the steps inner
ReadLocked(l, inner) == <<LockStep("RLock", l)>> \o inner \o <<LockStep("RUnlock", l)>>

storeGetProject == ReadLocked("store", <<>>)
storeSaveProject == WriteLocked("store", <<>>)
votingCastVote == WriteLocked("voting", <<>>)

CreateProjectPaths == {WriteLocked("service", storeSaveProject)}

GetProjectPaths == {ReadLocked("service", storeGetProject)}

GetProjectStatusPaths == {ReadLocked("service", storeGetProject)}

StartDecisionPaths ==
    {WriteLocked("service", storeGetProject),
     WriteLocked("service", storeGetProject \o storeSaveProject)}

\* the returns of CastVote without the deferred Unlock
CastVotePathsNoDefer ==
    {<<LockStep("Lock", "service")>> \o storeGetProject,
     <<LockStep("Lock", "service")>> \o storeGetProject \o votingCastVote,
     WriteLocked("service", storeGetProject \o votingCastVote \o storeSaveProject)}

CastVotePaths ==
    {WriteLocked("service", storeGetProject),
     WriteLocked("service", storeGetProject \o votingCastVote),
     WriteLocked("service", storeGetProject \o votingCastVote \o storeSaveProject)}

EndProjectPaths ==
    {WriteLocked("service", storeGetProject),
     WriteLocked("service", storeGetProject \o storeSaveProject)}

\* GetProject, then a return, EndProject or StartDecision
AdvanceProjectPaths ==
    GetProjectPaths
        \cup {g \o e : g \in GetProjectPaths, e \in EndProjectPaths}
        \cup {g \o d : g \in GetProjectPaths, d \in StartDecisionPaths}

LockPaths(op) ==
    IF op = "CreateProject" THEN CreateProjectPaths
    ELSE IF op = "GetProject" THEN GetProjectPaths
    ELSE IF op = "GetProjectStatus" THEN GetProjectStatusPaths
    ELSE IF op = "StartDecision" THEN StartDecisionPaths
    ELSE IF op = "CastVote" THEN CastVotePaths
    ELSE IF op = "EndProject" THEN EndProjectPaths
    ELSE AdvanceProjectPaths

LockOps == {"CreateProject", "GetProject", "GetProjectStatus", "StartDecision", "CastVote",
            "EndProject", "AdvanceProject"}

IdleLocks == [l \in Locks |-> IdleMu]
IdlePaths == [p \in Procs |-> <<>>]

InitLocks ==
    /\ mu = IdleLocks
    /\ pc = IdlePaths
    /\ call = IdleCall
    /\ local = IdleLocal
    /\ status = IdleStatus
    /\ castOK = NoCastOK
    /\ ServiceUnused
    /\ DecisionUnused
    /\ MetricsUnused

\* a caller enters one of the calls
Enter(p, op, path) ==
    /\ pc[p] = <<>>
    /\ pc' = [pc EXCEPT ![p] = path]
    /\ call' = [call EXCEPT ![p] = [NoCall EXCEPT !.op = op]]
    /\ UNCHANGED <<mu, local, status, castOK, svcVars, decVars, metVars>>

\* the caller can make the next step of its call
CanTake(p) ==
    /\ pc[p] # <<>>
    /\ Head(pc[p]).do = "Lock" => CanLock(mu[Head(pc[p]).on])
    /\ Head(pc[p]).do = "RLock" => CanRLock(mu[Head(pc[p]).on])

Taken(m, p, do) ==
    IF do = "Lock" THEN [m EXCEPT !.writer = Some(p)]
    ELSE IF do = "Unlock" THEN [m EXCEPT !.writer = Nil]
    ELSE IF do = "RLock" THEN [m EXCEPT !.readers = @ \cup {p}]
    ELSE [m EXCEPT !.readers = @ \ {p}]

\* the caller takes or releases a mutex; the call returns with the last step
Take(p) ==
    /\ CanTake(p)
    /\ mu' = [mu EXCEPT ![Head(pc[p]).on] = Taken(@, p, Head(pc[p]).do)]
    /\ pc' = [pc EXCEPT ![p] = Tail(@)]
    /\ call' = IF Len(pc[p]) = 1 THEN [call EXCEPT ![p] = NoCall] ELSE call
    /\ UNCHANGED <<local, status, castOK, svcVars, decVars, metVars>>

NextLocks ==
    \/ \E p \in Procs, op \in LockOps : \E path \in LockPaths(op) : Enter(p, op, path)
    \/ \E p \in Procs : Take(p)

\* a goroutine that can run runs, and sync.RWMutex lets no waiter starve
SpecLocks == InitLocks /\ [][NextLocks]_vars /\ \A p \in Procs : SF_vars(Take(p))

\* the mutexes a caller holds
HeldBy(p) == {l \in Locks : mu[l].writer = Some(p) \/ p \in mu[l].readers}

\* C39: among concurrent CreateProject, GetProject, GetProjectStatus,
\* StartDecision, CastVote, EndProject and AdvanceProject calls, a caller
\* takes a mutex only while the mutexes it holds come earlier in the order
\* Service, VotingService, store; some caller inside a call can always make
\* its next step; a caller outside a call holds no mutex; and every call
\* returns.
C39_NoDeadlock ==
    /\ [][\A p \in Procs : \A l \in Locks :
              (l \in HeldBy(p)' /\ l \notin HeldBy(p))
                  => \A h \in HeldBy(p) : Rank(h) < Rank(l)]_vars
    /\ []((\E p \in Procs : pc[p] # <<>>) => \E p \in Procs : CanTake(p))
    /\ [](\A p \in Procs : pc[p] = <<>> => HeldBy(p) = {})
    /\ \A p \in Procs : (pc[p] # <<>>) ~> (pc[p] = <<>>)

\* a CastVote holds Service.mu and VotingService.mu while an EndProject
\* waits for Service.mu
C39_Witness ==
    /\ call["c1"].op = "CastVote" /\ HeldBy("c1") = {"service", "voting"}
    /\ call["c2"].op = "EndProject" /\ HeldBy("c2") = {}
    /\ ~CanTake("c2")

====
